---- MODULE Spec2Model ----
(***************************************************************************)
(* Model of the retrieval-orchestration core of T-mobile-winners:          *)
(*   - NemotronClient.call_with_tools   (src/nemotron_client.py)           *)
(*   - MultiAgentSystem.generate_report (src/multi_agent_system.py)        *)
(*   - AgenticRAG.direct_prompt, retrieve_all_platforms, query             *)
(*     (src/agentic_rag.py) and get_ai_chat_response (src/ai_backend.py)   *)
(*   - SocialMediaVectorDB.__init__, search, retrieve_context, add_posts   *)
(*     (src/vector_db.py) and _store_in_azure                              *)
(*     (src/multi_carrier_appstore_collector.py)                           *)
(* The LLM endpoint and the registered tools are the environment: every    *)
(* response the endpoint can give and every outcome a tool can have is a   *)
(* nondeterministic choice from the small sets below.                      *)
(***************************************************************************)
EXTENDS Integers, Sequences, FiniteSets, TLC

VARIABLES
    messages,        \* call_with_tools: the transcript (list of message dicts)
    pc,              \* call_with_tools: position in the loop
    iteration,       \* call_with_tools: iterations of `for _ in range(max_iterations)` started
    max_iterations,  \* call_with_tools: the parameter
    tool_calls,      \* call_with_tools: tool_calls of the message being processed
    tc,              \* call_with_tools: index of the next tool call of `for tc in tool_calls`
    result,          \* call_with_tools: the returned value
    requests,        \* observation: number of _chat_completions calls issued
    invoked,         \* observation: the tool invocations tools[name](**args), in order
    payloads,        \* observation: the payloads given to _chat_completions, in order
    stage,           \* generate_report: the stage about to run, or how the call ended
    user_query,      \* generate_report: the parameter
    research_summary, \* generate_report: local, output of _research_agent
    outline,         \* generate_report: local, output of _outline_agent
    draft,           \* generate_report: local, output of _writer_agent
    final_report,    \* generate_report: local, output of _editor_agent
    bundle,          \* generate_report: the returned dict
    llm_calls,       \* observation: the calls made to the LLM capability, in order
    multi_index,     \* AgenticRAG: self.multi_index
    vector_dbs,      \* AgenticRAG: the keys of self.vector_dbs, in insertion order
    rag_op,          \* AgenticRAG: the entry point that was called
    rag_pc,          \* AgenticRAG: position in the running call
    platforms,       \* direct_prompt: the platforms parameter, then the local
    rag_k,           \* direct_prompt: index of the next key of `for key in platforms`
    context_sections, \* direct_prompt: local; retrieve_all_platforms: local `results`
    rag_events,      \* observation: the searches and completion requests issued, in order
    rag_result,      \* AgenticRAG: the returned value
    q_pc,            \* AgenticRAG.query: position in the session it starts
    q_prompted,      \* AgenticRAG.query: the tool names its system prompt gives the model
    q_tools,         \* AgenticRAG.query: the names of the local `tools` mapping
    q_iteration,     \* AgenticRAG.query: iterations of the session started so far
    q_sent,          \* observation: the tool schema lists the completion requests carried
    q_call,          \* AgenticRAG.query: the tool call being answered, or answered last
    index_docs,      \* search index: the stored documents, in upload order
    uploads,         \* observation: the ingestion operations run, in order
    db_args,         \* SocialMediaVectorDB.__init__: the arguments
    db_pc,           \* SocialMediaVectorDB.__init__: position
    db_self,         \* SocialMediaVectorDB.__init__: self.carrier and self.index_name
    db_events,       \* observation: the index operations issued, in order
    db_error,        \* SocialMediaVectorDB.__init__: the exception raised, if any
    dedup,           \* remove_duplicates: the parameters, locals and returned summary
    summary_call,    \* generate_summary_json: the locals, the file written, the result
    scheduler,       \* run_scheduled: the parameter, the cycle counter and what it ran
    scan,            \* collect_carrier_reviews: the parameters, locals and returned list
    sessions,        \* concurrent call_with_tools sessions: the locals of each call
    collector,       \* ScheduledCollector: the instance, its cache and the cycle running
    ai_init          \* ai_backend: the module globals and what initialize_ai constructed

sessionVars == <<messages, pc, iteration, max_iterations, tool_calls, tc, result,
                 requests, invoked, payloads>>

pipelineVars == <<stage, user_query, research_summary, outline, draft, final_report,
                  bundle, llm_calls>>

agentVars == <<multi_index, vector_dbs>>

ragVars == <<rag_op, rag_pc, platforms, rag_k, context_sections, rag_events, rag_result>>

queryVars == <<q_pc, q_prompted, q_tools, q_iteration, q_sent, q_call>>

ingestVars == <<index_docs, uploads>>

dbVars == <<db_args, db_pc, db_self, db_events, db_error>>

\* the frames of the maintenance, summary, scheduling and collection calls
\* the ScheduledCollector instance and the globals of ai_backend
lateVars == <<collector, ai_init>>

callVars == <<dedup, summary_call, scheduler, scan, sessions, lateVars>>

vars == <<sessionVars, pipelineVars, agentVars, ragVars, queryVars, ingestVars, dbVars,
          callVars>>

\* what each component leaves alone: the state of the other components
outsideSession == <<pipelineVars, agentVars, ragVars, queryVars, ingestVars, dbVars, callVars>>

outsidePipeline == <<sessionVars, agentVars, ragVars, queryVars, ingestVars, dbVars, callVars>>

outsideRag == <<sessionVars, pipelineVars, queryVars, dbVars, callVars>>

outsideQuery == <<sessionVars, pipelineVars, ragVars, ingestVars, dbVars, callVars>>

outsideIngest == <<sessionVars, pipelineVars, agentVars, ragVars, queryVars, dbVars, callVars>>

outsideDb == <<sessionVars, pipelineVars, agentVars, ragVars, queryVars, ingestVars, callVars>>

\* the components of the retrieval layer and of the tool-calling pipeline
coreVars == <<sessionVars, pipelineVars, agentVars, ragVars, queryVars, dbVars>>

outsideDedup == <<coreVars, uploads, summary_call, scheduler, scan, sessions, lateVars>>

outsideSummary == <<coreVars, ingestVars, dedup, scheduler, scan, sessions, lateVars>>

outsideScheduler == <<coreVars, ingestVars, dedup, summary_call, scan, sessions, lateVars>>

outsideScan == <<coreVars, ingestVars, dedup, summary_call, scheduler, sessions, lateVars>>

outsideSessions == <<coreVars, ingestVars, dedup, summary_call, scheduler, scan, lateVars>>

outsideCollector ==
    <<coreVars, ingestVars, dedup, summary_call, scheduler, scan, sessions, ai_init>>

outsideAiInit ==
    <<coreVars, ingestVars, dedup, summary_call, scheduler, scan, sessions, collector>>

----------------------------------------------------------------------------
(* Bounds of the exploration *)

\* largest max_iterations a session is started with
MaxIter == 2
\* most tool calls the modelled endpoint requests over one session
MaxToolCalls == 2

----------------------------------------------------------------------------
(* Values *)

\* Python's None, as a message content or a return value
NONE == "<None>"
\* the value of `result` while the call has not returned
NoResult == "<no result>"

SystemPrompt == "system prompt"
UserPrompt == "user prompt"

\* contents the endpoint puts into an assistant message (null with most tool-call turns)
Contents == {NONE, "A", "B"}

\* tools = {"lookup": ..., "stats": ..., "broken": ...}, the dict passed by the caller
RegisteredTools == {"lookup", "stats", "broken"}
\* names the model may put into a tool call
RequestedNames == RegisteredTools \cup {"ghost"}

\* serialized argument payloads the model may send
ArgPayloads == {"{\"search_query\": \"x\"}", "{oops", "[1]"}

\* Python values of parsed arguments
EmptyArgs == [kind |-> "object", keys |-> {}]
QueryArgs == [kind |-> "object", keys |-> {"search_query"}]
ArrayArgs == [kind |-> "array", keys |-> {}]

\* json.loads(args_raw): ok = FALSE when it raises
JsonLoads(s) ==
    CASE s = "{\"search_query\": \"x\"}" -> [ok |-> TRUE, value |-> QueryArgs]
      [] s = "[1]" -> [ok |-> TRUE, value |-> ArrayArgs]
      [] OTHER -> [ok |-> FALSE, value |-> EmptyArgs]

\* ParseArgs with `except Exception: function_args = args_raw`
ParseArgsKeepRaw(args_raw) ==
    LET p == JsonLoads(args_raw) IN
    IF p.ok THEN p.value ELSE [kind |-> "string", keys |-> {}]

\* try: function_args = json.loads(args_raw) ... except Exception: function_args = {}
ParseArgs(args_raw) ==
    LET p == JsonLoads(args_raw) IN IF p.ok THEN p.value ELSE EmptyArgs

\* tools[function_name](**function_args): what the callable does.
\*   raised = TRUE: an Exception leaves the call, with message `text`
\*   otherwise it returns `text`, a str when isstr, else a JSON-serializable value
CallTool(name, args) ==
    IF args.kind # "object"
    THEN [raised |-> TRUE, isstr |-> TRUE, text |-> "argument after ** must be a mapping"]
    ELSE CASE name = "lookup" ->
                IF "search_query" \in args.keys
                THEN [raised |-> FALSE, isstr |-> TRUE, text |-> "hits"]
                ELSE [raised |-> TRUE, isstr |-> TRUE,
                      text |-> "missing 1 required positional argument: 'search_query'"]
           [] name = "stats" ->
                IF args.keys = {}
                THEN [raised |-> FALSE, isstr |-> FALSE, text |-> "count=3"]
                ELSE [raised |-> TRUE, isstr |-> TRUE,
                      text |-> "got an unexpected keyword argument 'search_query'"]
           [] OTHER -> [raised |-> TRUE, isstr |-> TRUE, text |-> "index unavailable"]

\* json.dumps(result) of a non-string result
JsonDumps(v) == "{" \o v \o "}"

----------------------------------------------------------------------------
(* NemotronClient.call_with_tools *)

Message(role, content, calls, call_id) ==
    [role |-> role, content |-> content, tool_calls |-> calls, tool_call_id |-> call_id]

\* Python truthiness of a message content (m.get("content"))
Truthy(content) == content \notin {NONE, ""}

\* messages = [{"role": "system", ...}, {"role": "user", ...}]
InitialMessages ==
    <<Message("system", SystemPrompt, <<>>, NONE), Message("user", UserPrompt, <<>>, NONE)>>

\* number of tool calls requested so far in the transcript
RECURSIVE CallsRequested(_)
CallsRequested(msgs) ==
    IF msgs = <<>> THEN 0
    ELSE Len(msgs[Len(msgs)].tool_calls) + CallsRequested(SubSeq(msgs, 1, Len(msgs) - 1))

\* identifiers the endpoint gives its tool calls: call_1, call_2, ...
CallId(n) == "call_" \o ToString(n)

\* the tool_calls lists of k calls the endpoint may send after `base` earlier calls
ToolCallLists(k, base) ==
    {[j \in 1..k |-> [id |-> CallId(base + j), name |-> f[j][1], arguments |-> f[j][2]]] :
        f \in [1..k -> RequestedNames \X ArgPayloads]}

\* the assistant messages the endpoint may answer with
Responses(msgs) ==
    {Message("assistant", c, calls, NONE) :
        c \in Contents,
        calls \in UNION {ToolCallLists(k, CallsRequested(msgs)) :
                            k \in 0..(MaxToolCalls - CallsRequested(msgs))}}

\* DispatchCall without the try/except around the invocation
DispatchCallUncaught(function_name, function_args) ==
    IF function_name \notin RegisteredTools
    THEN [tool_result |-> "Error: Tool " \o function_name \o " not found",
          dispatched |-> FALSE, escaped |-> FALSE]
    ELSE LET r == CallTool(function_name, function_args) IN
         [tool_result |-> IF r.isstr THEN r.text ELSE JsonDumps(r.text),
          dispatched |-> TRUE, escaped |-> r.raised]

\* DispatchCall without the `function_name not in tools` test: the lookup
\* tools[function_name] raises KeyError inside the try
DispatchCallNoLookup(function_name, function_args) ==
    IF function_name \notin RegisteredTools
    THEN [tool_result |-> "Error executing tool: '" \o function_name \o "'",
          dispatched |-> FALSE, escaped |-> FALSE]
    ELSE LET r == CallTool(function_name, function_args) IN
         [tool_result |-> IF r.raised THEN "Error executing tool: " \o r.text
                          ELSE IF r.isstr THEN r.text ELSE JsonDumps(r.text),
          dispatched |-> TRUE, escaped |-> FALSE]

\* lines 175-182: the membership test, the invocation inside try/except, the conversion
\* of the result. dispatched: tools[function_name](**function_args) was evaluated;
\* escaped: an exception left the block (the except clause lets none out)
DispatchCall(function_name, function_args) ==
    IF function_name \notin RegisteredTools
    THEN [tool_result |-> "Error: Tool " \o function_name \o " not found",
          dispatched |-> FALSE, escaped |-> FALSE]
    ELSE LET r == CallTool(function_name, function_args) IN
         [tool_result |-> IF r.raised THEN "Error executing tool: " \o r.text
                          ELSE IF r.isstr THEN r.text ELSE JsonDumps(r.text),
          dispatched |-> TRUE, escaped |-> FALSE]

\* ToolMessage tagging every result with the id of the turn's first call
ToolMessageFirstId(call, tool_result) ==
    Message("tool", tool_result, <<>>, tool_calls[1].id)

\* messages.append({"role": "tool", "tool_call_id": tc.get("id"), "content": tool_result})
ToolMessage(call, tool_result) == Message("tool", tool_result, <<>>, call.id)

\* for m in reversed(messages): if assistant with content: return it
RECURSIVE LastAssistantContent(_, _)
LastAssistantContent(msgs, i) ==
    IF i = 0 THEN "Maximum iterations reached"
    ELSE IF msgs[i].role = "assistant" /\ Truthy(msgs[i].content) THEN msgs[i].content
    ELSE LastAssistantContent(msgs, i - 1)

\* FallbackAnswer scanning `messages` instead of `reversed(messages)`
FallbackFirst(msgs) ==
    LET hits == {i \in 1..Len(msgs) : msgs[i].role = "assistant" /\ Truthy(msgs[i].content)}
    IN IF hits = {} THEN "Maximum iterations reached"
       ELSE msgs[CHOOSE i \in hits : \A k \in hits : i <= k].content

FallbackAnswer(msgs) == LastAssistantContent(msgs, Len(msgs))

\* a payload carrying the latest turn only
PayloadLatestTurn(msgs) ==
    [messages |-> SubSeq(msgs, Len(msgs), Len(msgs)), tool_choice |-> "auto"]

\* payload = {"model": ..., "messages": messages, "tools": tool_schemas,
\* "tool_choice": "auto", ...}
Payload(msgs) == [messages |-> msgs, tool_choice |-> "auto"]

\* NoToolCalls taking a message with content for the final answer
NoToolCallsOrContent(message) == message.tool_calls = <<>> \/ Truthy(message.content)

\* `if not tool_calls`
NoToolCalls(message) == message.tool_calls = <<>>

\* LoopContinues off by one: range(max_iterations + 1)
LoopContinuesOffByOne == iteration <= max_iterations

\* `for _ in range(max_iterations)` has another iteration to run
LoopContinues == iteration < max_iterations

\* no call_with_tools session is being followed
SessionIdle ==
    /\ max_iterations = 0
    /\ messages = <<>>
    /\ pc = "Idle"
    /\ iteration = 0
    /\ tool_calls = <<>>
    /\ tc = 1
    /\ result = NoResult
    /\ requests = 0
    /\ invoked = <<>>
    /\ payloads = <<>>

SessionInit ==
    /\ max_iterations \in 0..MaxIter
    /\ messages = InitialMessages
    /\ pc = "AwaitingModel"
    /\ iteration = 0
    /\ tool_calls = <<>>
    /\ tc = 1
    /\ result = NoResult
    /\ requests = 0
    /\ invoked = <<>>
    /\ payloads = <<>>

\* one pass of lines 144-163: the request is answered with `message`
ModelResponds ==
    /\ pc = "AwaitingModel"
    /\ LoopContinues
    /\ \E message \in Responses(messages) :
        /\ iteration' = iteration + 1
        /\ requests' = requests + 1
        /\ payloads' = Append(payloads, Payload(messages))
        /\ messages' = Append(messages, message)
        /\ IF NoToolCalls(message)
           THEN /\ result' = message.content
                /\ pc' = "Done"
                /\ UNCHANGED <<tool_calls, tc>>
           ELSE /\ tool_calls' = message.tool_calls
                /\ tc' = 1
                /\ pc' = "ExecutingTools"
                /\ UNCHANGED result
    /\ UNCHANGED <<max_iterations, invoked>>
    /\ UNCHANGED outsideSession

\* _chat_completions raises RuntimeError (resp.ok is false): it leaves call_with_tools
RequestFails ==
    /\ pc = "AwaitingModel"
    /\ LoopContinues
    /\ iteration' = iteration + 1
    /\ requests' = requests + 1
    /\ payloads' = Append(payloads, Payload(messages))
    /\ pc' = "Raised"
    /\ UNCHANGED <<messages, max_iterations, tool_calls, tc, result, invoked>>
    /\ UNCHANGED outsideSession

\* one pass of `for tc in tool_calls` (lines 166-189)
ExecuteToolCall ==
    /\ pc = "ExecutingTools"
    /\ LET call == tool_calls[tc]
           function_args == ParseArgs(call.arguments)
           d == DispatchCall(call.name, function_args)
       IN /\ invoked' = IF d.dispatched
                         THEN Append(invoked, [id |-> call.id, name |-> call.name,
                                               args |-> function_args])
                         ELSE invoked
          /\ IF d.escaped
             THEN /\ pc' = "Raised"
                  /\ UNCHANGED <<messages, tc>>
             ELSE /\ messages' = Append(messages, ToolMessage(call, d.tool_result))
                  /\ IF tc < Len(tool_calls)
                     THEN tc' = tc + 1 /\ pc' = pc
                     ELSE tc' = tc /\ pc' = "AwaitingModel"
    /\ UNCHANGED <<iteration, max_iterations, tool_calls, result, requests, payloads>>
    /\ UNCHANGED outsideSession

\* the loop ran max_iterations times (lines 191-195)
IterationsExhausted ==
    /\ pc = "AwaitingModel"
    /\ ~LoopContinues
    /\ result' = FallbackAnswer(messages)
    /\ pc' = "Done"
    /\ UNCHANGED <<messages, iteration, max_iterations, tool_calls, tc, requests, invoked,
                   payloads>>
    /\ UNCHANGED outsideSession

Next == ModelResponds \/ RequestFails \/ ExecuteToolCall \/ IterationsExhausted

----------------------------------------------------------------------------
(* MultiAgentSystem.generate_report *)

\* what a call of the LLM capability gives back when it raises instead of returning
RAISED == "<raised>"
\* value of a local that is not assigned yet
Unset == "<unset>"
\* value of `bundle` while generate_report has not returned
NoBundle == [research_summary |-> Unset, outline |-> Unset, draft |-> Unset,
             final_report |-> Unset]

Queries == {"q1", "q2"}
\* texts the LLM capability may return for a stage
Texts == {"t1", "t2", "t3"}

\* f-strings, as the sequence of their literal parts and interpolated values
ResearchPrompt(q) == <<"RESEARCH REQUEST: ", q, "\n\nMANDATORY INSTRUCTIONS: ...">>

OutlinePrompt(research, q) ==
    <<"\n# Original Query:\n", q, "\n\n# Research Summary:\n", research,
      "\n\n# Task:\nBased on the research summary above, ...">>

\* WriterPrompt interpolating the research summary where the outline belongs
WriterPromptNoOutline(research, outl) ==
    <<"\n# Research Summary (Your Source of Facts):\n", research,
      "\n\n# Outline to Follow:\n", research,
      "\n\n# Task:\nWrite the full report draft now. ...">>

WriterPrompt(research, outl) ==
    <<"\n# Research Summary (Your Source of Facts):\n", research,
      "\n\n# Outline to Follow:\n", outl, "\n\n# Task:\nWrite the full report draft now. ...">>

EditorPrompt(research, outl, drft) ==
    <<"\n# Research Summary (Factual Reference):\n", research,
      "\n\n# Original Outline (Structure Reference):\n", outl,
      "\n\n# Draft to Review:\n", drft, "\n\n# Task:\nReview this draft carefully. ...">>

\* StageAfter with the outline step missing
StageAfterSkipOutline(s) ==
    CASE s = "research" -> "draft"
      [] s = "outline" -> "draft"
      [] s = "draft" -> "edit"
      [] s = "edit" -> "return"

\* the statement that follows the call of a stage in generate_report
StageAfter(s) ==
    CASE s = "research" -> "outline"
      [] s = "outline" -> "draft"
      [] s = "draft" -> "edit"
      [] s = "edit" -> "return"

\* AfterCall with the stage call wrapped in `try: ... except Exception: pass`
AfterCallSwallow(s, outcome) == StageAfter(s)

\* generate_report has no try/except: an exception of a stage leaves it
AfterCall(s, outcome) == IF outcome = RAISED THEN "raised" ELSE StageAfter(s)

\* one temperature for every stage
TemperatureFlat(agent) == 2

\* the sampling temperature each stage passes, in tenths: call_with_tools
\* sends 0.2, _outline_agent 0.3, _writer_agent 0.4, _editor_agent 0.2
Temperature(agent) ==
    CASE agent = "research" -> 2
      [] agent = "outline" -> 3
      [] agent = "draft" -> 4
      [] agent = "edit" -> 2

\* the record kept of one call: temperature in tenths
LlmCall(agent, prompt, returned) ==
    [agent |-> agent, prompt |-> prompt, temperature |-> Temperature(agent), returned |-> returned]

PipelineIdle ==
    /\ stage = "idle"
    /\ user_query = Unset
    /\ research_summary = Unset
    /\ outline = Unset
    /\ draft = Unset
    /\ final_report = Unset
    /\ bundle = NoBundle
    /\ llm_calls = <<>>

PipelineInit ==
    /\ stage = "research"
    /\ user_query \in Queries
    /\ research_summary = Unset
    /\ outline = Unset
    /\ draft = Unset
    /\ final_report = Unset
    /\ bundle = NoBundle
    /\ llm_calls = <<>>

\* research_summary = self._research_agent(user_query): agentic_rag.query runs a
\* call_with_tools session, which returns a text or raises
ResearchStage ==
    /\ stage = "research"
    /\ \E out \in Texts \cup {RAISED} :
        /\ llm_calls' = Append(llm_calls, LlmCall("research", ResearchPrompt(user_query), out))
        /\ research_summary' = IF out = RAISED THEN research_summary ELSE out
        /\ stage' = AfterCall(stage, out)
    /\ UNCHANGED <<user_query, outline, draft, final_report, bundle>>
    /\ UNCHANGED outsidePipeline

\* outline = self._outline_agent(research_summary, user_query)
OutlineStage ==
    /\ stage = "outline"
    /\ \E out \in Texts \cup {RAISED} :
        /\ llm_calls' = Append(llm_calls,
                LlmCall("outline", OutlinePrompt(research_summary, user_query), out))
        /\ outline' = IF out = RAISED THEN outline ELSE out
        /\ stage' = AfterCall(stage, out)
    /\ UNCHANGED <<user_query, research_summary, draft, final_report, bundle>>
    /\ UNCHANGED outsidePipeline

\* draft = self._writer_agent(research_summary, outline)
WriterStage ==
    /\ stage = "draft"
    /\ \E out \in Texts \cup {RAISED} :
        /\ llm_calls' = Append(llm_calls,
                LlmCall("draft", WriterPrompt(research_summary, outline), out))
        /\ draft' = IF out = RAISED THEN draft ELSE out
        /\ stage' = AfterCall(stage, out)
    /\ UNCHANGED <<user_query, research_summary, outline, final_report, bundle>>
    /\ UNCHANGED outsidePipeline

\* final_report = self._editor_agent(research_summary, outline, draft)
EditorStage ==
    /\ stage = "edit"
    /\ \E out \in Texts \cup {RAISED} :
        /\ llm_calls' = Append(llm_calls,
                LlmCall("edit", EditorPrompt(research_summary, outline, draft), out))
        /\ final_report' = IF out = RAISED THEN final_report ELSE out
        /\ stage' = AfterCall(stage, out)
    /\ UNCHANGED <<user_query, research_summary, outline, draft, bundle>>
    /\ UNCHANGED outsidePipeline

\* return {'research_summary': ..., 'outline': ..., 'draft': ..., 'final_report': ...}
ReturnBundle ==
    /\ stage = "return"
    /\ bundle' = [research_summary |-> research_summary, outline |-> outline,
                  draft |-> draft, final_report |-> final_report]
    /\ stage' = "done"
    /\ UNCHANGED <<user_query, research_summary, outline, draft, final_report, llm_calls>>
    /\ UNCHANGED outsidePipeline

PipelineNext == ResearchStage \/ OutlineStage \/ WriterStage \/ EditorStage \/ ReturnBundle

----------------------------------------------------------------------------
(* SocialMediaVectorDB.search and retrieve_context (src/vector_db.py) *)

\* most hits one search returns
MaxHits == 2

\* a key a returned document does not carry
MISSING == "<missing>"

\* the documents the index can return: a dict with 'text' and, possibly, 'platform'
HitDocs == {[platform |-> "reddit", text |-> "slow data"],
            [platform |-> MISSING, text |-> "app crashes"]}

HitLists == UNION {[1..n -> HitDocs] : n \in 0..MaxHits}

SearchErrors == {"index unreachable"}

\* what the search client does with one query: it returns hits or it raises
SearchOutcomes ==
    {[raised |-> FALSE, hits |-> h, error |-> ""] : h \in HitLists}
    \cup {[raised |-> TRUE, hits |-> <<>>, error |-> e] : e \in SearchErrors}

\* search(): list(results_iter); an exception of the client passes through
Search(outcome) == outcome

\* r.get('platform', 'unknown')
PlatformOf(r) == IF r.platform = MISSING THEN "unknown" ELSE r.platform

\* str.upper() on the platform names
Upper(s) ==
    CASE s = "reddit" -> "REDDIT"
      [] s = "playstore" -> "PLAYSTORE"
      [] s = "appstore" -> "APPSTORE"
      [] s = "unknown" -> "UNKNOWN"
      [] OTHER -> s

\* a line of text is the sequence of the literal and interpolated parts of its f-string
NoPostsLine == <<"No relevant posts found.">>

\* Entry numbering from 0: enumerate(results)
EntryZeroBased(i, r) == <<ToString(i - 1), ". [", Upper(PlatformOf(r)), "] ", r.text>>

\* f"{i}. [{platform.upper()}] {r['text']}"
Entry(i, r) == <<ToString(i), ". [", Upper(PlatformOf(r)), "] ", r.text>>

\* retrieve_context(): the lines of the returned text, or the exception of search()
RetrieveContext(outcome) ==
    LET results == Search(outcome) IN
    IF results.raised THEN [raised |-> TRUE, text |-> <<>>, error |-> results.error]
    ELSE IF results.hits = <<>>
         THEN [raised |-> FALSE, text |-> <<NoPostsLine>>, error |-> ""]
         ELSE [raised |-> FALSE,
               text |-> [i \in 1..Len(results.hits) |-> Entry(i, results.hits[i])],
               error |-> ""]

----------------------------------------------------------------------------
(* AgenticRAG.direct_prompt, retrieve_all_platforms (src/agentic_rag.py) and
   get_ai_chat_response (src/ai_backend.py) *)

\* the ways an AgenticRAG is constructed: one database, or a dict of databases
AgentConfigs ==
    {[multi_index |-> FALSE, keys |-> <<"default">>],
     [multi_index |-> TRUE, keys |-> <<"reddit", "playstore">>],
     [multi_index |-> TRUE, keys |-> <<"playstore">>],
     [multi_index |-> TRUE, keys |-> <<"tmobile", "att", "verizon">>],
     [multi_index |-> TRUE, keys |-> <<>>]}

Range(seq) == {seq[i] : i \in 1..Len(seq)}

\* the platforms argument: absent, or a list of keys
NoSelection == [selected |-> FALSE, keys |-> <<>>]

PlatformSelections ==
    {NoSelection,
     [selected |-> TRUE, keys |-> <<"playstore">>],
     [selected |-> TRUE, keys |-> <<"appstore", "reddit">>]}

Question == "why is my bill higher"

\* a returned value: a str (its parts), None, or nothing returned yet
Str(t) == [kind |-> "str", text |-> t]
PyNone == [kind |-> "None", text |-> <<>>]
NoValue == [kind |-> "unset", text |-> <<>>]

\* PlatformsOrAll defaulting to the first index only
PlatformsFirstOnly(param, dbs) ==
    IF ~param.selected THEN (IF dbs = <<>> THEN <<>> ELSE <<dbs[1]>>) ELSE param.keys

\* if platforms is None: platforms = list(self.vector_dbs.keys())
PlatformsOrAll(param, dbs) == IF ~param.selected THEN dbs ELSE param.keys

\* str.title() on the index keys
Title(s) ==
    CASE s = "tmobile" -> "Tmobile"
      [] s = "att" -> "Att"
      [] s = "verizon" -> "Verizon"
      [] OTHER -> s

\* {...}.get(key, key.title())
Header(key) ==
    CASE key = "reddit" -> "Reddit Posts"
      [] key = "playstore" -> "Google Play Store Reviews"
      [] key = "appstore" -> "Apple App Store Reviews"
      [] key = "default" -> "Social Media Posts"
      [] OTHER -> Title(key)

\* f"[{header}]\n{ctx}": the header line, then the lines of ctx
Section(header, ctx) == <<<<"[", header, "]">>>> \o ctx

\* SectionFor without the try/except of the loop body
SectionForUncaught(key, outcome) ==
    LET ctx == RetrieveContext(outcome) IN
    [escaped |-> ctx.raised, section |-> Section(Header(key), ctx.text)]

\* the try/except of the loop body: a section for the key, whatever retrieval did
SectionFor(key, outcome) ==
    LET ctx == RetrieveContext(outcome) IN
    IF ctx.raised
    THEN [escaped |-> FALSE, section |-> <<<<"[", key, "] Retrieval error: ", ctx.error>>>>]
    ELSE [escaped |-> FALSE, section |-> Section(Header(key), ctx.text)]

\* "\n\n".join(context_sections) if context_sections else "No context retrieved."
CombinedContext(sections) ==
    IF sections = <<>> THEN <<<<<<"No context retrieved.">>>>>> ELSE sections

FinalUserPrompt(prompt, combined_context) ==
    [question |-> prompt, context |-> combined_context]

\* what the completion endpoint does with one request
LlmTexts == {<<"answer">>, <<"<think>", "plan", "</think>", "answer">>, <<>>}

LlmErrors == {"Nemotron API error 500"}

LlmOutcomes ==
    {[raised |-> FALSE, text |-> t, error |-> ""] : t \in LlmTexts}
    \cup {[raised |-> TRUE, text |-> <<>>, error |-> e] : e \in LlmErrors}

\* NemotronClient.chat: one call() when there is a user message, else a fixed text
Chat(user_prompt_present, outcome) ==
    IF user_prompt_present
    THEN [requests |-> 1, raised |-> outcome.raised, text |-> outcome.text,
          error |-> outcome.error]
    ELSE [requests |-> 0, raised |-> FALSE,
          text |-> <<"No user message found in chat messages">>, error |-> ""]

ErrorPrefix == "Error generating response"

\* the try/except around the chat call: return f"Error generating response: {e}"
Generate(reply) ==
    IF reply.raised
    THEN [escaped |-> FALSE, value |-> Str(<<ErrorPrefix, ": ", reply.error>>)]
    ELSE [escaped |-> FALSE, value |-> Str(reply.text)]

\* the parameters of direct_prompt, and the keywords get_ai_chat_response passes
DirectPromptParams ==
    {"prompt", "retrieval_query", "platforms", "top_k", "system_prompt", "filter_metadata"}

ChatResponseKeywords == {"k"}

\* Python binds a call's keywords to parameters, or raises TypeError
Binds(keywords, params) == keywords \subseteq params

StartsWith(s, prefix) == s # <<>> /\ s[1] = prefix

\* the text after the closing tag of the reasoning block that opens at its head
RECURSIVE AfterClose(_, _)
AfterClose(s, close) ==
    IF s = <<>> THEN <<>>
    ELSE IF Head(s) = close THEN Tail(s) ELSE AfterClose(Tail(s), close)

\* _clean_nemotron_response: re.sub(r'<think>.*?</think>', '', ...) and strip()
RECURSIVE Clean(_)
Clean(s) ==
    IF s = <<>> THEN <<>>
    ELSE IF Head(s) = "<think>" /\ "</think>" \in Range(s)
         THEN Clean(AfterClose(s, "</think>"))
         ELSE <<Head(s)>> \o Clean(Tail(s))

\* lines 1342-1349: a non-empty response that is no error text is cleaned, else None
ChatResponse(response) ==
    IF response.text # <<>> /\ ~StartsWith(response.text, ErrorPrefix)
    THEN Str(Clean(response.text)) ELSE PyNone

\* what the entry point called hands back for the value direct_prompt returned
Returned(op, value) ==
    IF op = "get_ai_chat_response" THEN ChatResponse(value) ELSE value

SearchEvent(key, outcome) ==
    [kind |-> "search", key |-> key, query |-> Question, outcome |-> outcome,
     ctx |-> RetrieveContext(outcome)]

CompletionEvent(user_prompt, outcome) ==
    [kind |-> "completion", prompt |-> user_prompt, outcome |-> outcome]

\* AddSection putting the new section first: insert(0, ...)
AddSectionFront(sections, section) == <<section>> \o sections

\* context_sections.append(...) and results.append(...)
AddSection(sections, section) == Append(sections, section)

\* SearchClientSearch uploading the query as a document
SearchClientSearchUploads(docs) ==
    Append(docs, [id |-> "doc_query", platform |-> "unknown", post_id |-> ""])

\* search_client.search(...), the one call the retrieval methods make on an index:
\* the documents of the index after it
SearchClientSearch(docs) == docs

\* the platforms retrieve_all_platforms looks for, in the order of its statements
FanOutKeys == <<"reddit", "playstore">>

RagOps == {"direct_prompt", "retrieve_all_platforms", "get_ai_chat_response"}

RagIdle ==
    /\ rag_op = "idle"
    /\ rag_pc = "idle"
    /\ platforms = NoSelection
    /\ rag_k = 1
    /\ context_sections = <<>>
    /\ rag_events = <<>>
    /\ rag_result = NoValue

AgentIdle ==
    /\ multi_index = FALSE
    /\ vector_dbs = <<>>

\* an AgenticRAG was constructed and one of its entry points has just been called
RagInit ==
    /\ \E c \in AgentConfigs :
         /\ multi_index = c.multi_index
         /\ vector_dbs = c.keys
    /\ rag_op \in RagOps
    /\ platforms \in IF rag_op = "direct_prompt" THEN PlatformSelections ELSE {NoSelection}
    /\ rag_pc = CASE rag_op = "direct_prompt" -> "loop"
                  [] rag_op = "retrieve_all_platforms" -> "fanout"
                  [] OTHER -> "call"
    /\ rag_k = 1
    /\ context_sections = <<>>
    /\ rag_events = <<>>
    /\ rag_result = NoValue

\* get_ai_chat_response, line 1340: direct_prompt(query, k=10); the TypeError of a
\* keyword that is no parameter is caught by `except Exception`, which returns None
GetAiChatResponseCall ==
    /\ rag_pc = "call"
    /\ IF Binds(ChatResponseKeywords, DirectPromptParams)
       THEN rag_pc' = "loop" /\ rag_result' = rag_result
       ELSE rag_pc' = "done" /\ rag_result' = PyNone
    /\ UNCHANGED <<rag_op, platforms, rag_k, context_sections, rag_events>>
    /\ UNCHANGED <<agentVars, ingestVars>>
    /\ UNCHANGED outsideRag

\* direct_prompt: one pass of `for key in platforms`
DirectPromptRetrieve ==
    /\ rag_pc = "loop"
    /\ rag_k <= Len(PlatformsOrAll(platforms, vector_dbs))
    /\ LET key == PlatformsOrAll(platforms, vector_dbs)[rag_k] IN
       IF key \notin Range(vector_dbs)
       THEN /\ rag_k' = rag_k + 1
            /\ UNCHANGED <<rag_pc, context_sections, rag_events, index_docs>>
       ELSE \E outcome \in SearchOutcomes :
              LET s == SectionFor(key, outcome) IN
              /\ rag_events' = Append(rag_events, SearchEvent(key, outcome))
              /\ index_docs' = SearchClientSearch(index_docs)
              /\ IF s.escaped
                 THEN rag_pc' = "raised" /\ UNCHANGED <<rag_k, context_sections>>
                 ELSE /\ context_sections' = AddSection(context_sections, s.section)
                      /\ rag_k' = rag_k + 1
                      /\ rag_pc' = rag_pc
    /\ UNCHANGED <<rag_op, platforms, rag_result, uploads>>
    /\ UNCHANGED agentVars
    /\ UNCHANGED outsideRag

\* direct_prompt: the prompt is built and the one chat call is made
DirectPromptComplete ==
    /\ rag_pc = "loop"
    /\ rag_k > Len(PlatformsOrAll(platforms, vector_dbs))
    /\ \E outcome \in LlmOutcomes :
         LET user_prompt == FinalUserPrompt(Question, CombinedContext(context_sections))
             reply == Chat(TRUE, outcome)
             g == Generate(reply)
         IN /\ rag_events' = IF reply.requests = 1
                             THEN Append(rag_events, CompletionEvent(user_prompt, outcome))
                             ELSE rag_events
            /\ IF g.escaped
               THEN rag_pc' = "raised" /\ rag_result' = rag_result
               ELSE rag_pc' = "done" /\ rag_result' = Returned(rag_op, g.value)
    /\ UNCHANGED <<rag_op, platforms, rag_k, context_sections>>
    /\ UNCHANGED <<agentVars, ingestVars>>
    /\ UNCHANGED outsideRag

\* retrieve_all_platforms: one of its two `if '<platform>' in self.vector_dbs` blocks
RetrieveAllPlatformsQuery ==
    /\ rag_pc = "fanout"
    /\ rag_k <= Len(FanOutKeys)
    /\ LET key == FanOutKeys[rag_k] IN
       IF key \notin Range(vector_dbs)
       THEN /\ rag_k' = rag_k + 1
            /\ UNCHANGED <<rag_pc, context_sections, rag_events, index_docs>>
       ELSE \E outcome \in SearchOutcomes :
              LET ctx == RetrieveContext(outcome) IN
              /\ rag_events' = Append(rag_events, SearchEvent(key, outcome))
              /\ index_docs' = SearchClientSearch(index_docs)
              /\ IF ctx.raised
                 THEN rag_pc' = "raised" /\ UNCHANGED <<rag_k, context_sections>>
                 ELSE /\ context_sections' =
                            AddSection(context_sections, Section(Header(key), ctx.text))
                      /\ rag_k' = rag_k + 1
                      /\ rag_pc' = rag_pc
    /\ UNCHANGED <<rag_op, platforms, rag_result, uploads>>
    /\ UNCHANGED agentVars
    /\ UNCHANGED outsideRag

\* retrieve_all_platforms: return "\n\n".join(results)
RetrieveAllPlatformsReturn ==
    /\ rag_pc = "fanout"
    /\ rag_k > Len(FanOutKeys)
    /\ rag_pc' = "done"
    /\ rag_result' = [kind |-> "str", text |-> context_sections]
    /\ UNCHANGED <<rag_op, platforms, rag_k, context_sections, rag_events>>
    /\ UNCHANGED <<agentVars, ingestVars>>
    /\ UNCHANGED outsideRag

RagNext ==
    \/ GetAiChatResponseCall
    \/ DirectPromptRetrieve
    \/ DirectPromptComplete
    \/ RetrieveAllPlatformsQuery
    \/ RetrieveAllPlatformsReturn

----------------------------------------------------------------------------
(* AgenticRAG._build_tool_schemas and query (src/agentic_rag.py), started by
   MultiAgentSystem._research_agent (src/multi_agent_system.py) or directly *)

\* call_with_tools(..., max_iterations: int = 5), the default query() relies on
DefaultMaxIterations == 5

\* _build_tool_schemas: the function names of the schemas, in the order appended
BuildToolSchemas(multi, dbs) ==
    IF multi
    THEN (IF "reddit" \in Range(dbs) THEN <<"retrieve_reddit_posts">> ELSE <<>>)
         \o (IF "playstore" \in Range(dbs) THEN <<"retrieve_playstore_reviews">> ELSE <<>>)
         \o <<"retrieve_all_platforms">>
    ELSE <<"retrieve_social_media_posts">>

\* the three multi-index tools registered whatever the configured keys are
QueryToolsAllRegistered(multi, dbs) ==
    IF multi
    THEN {"retrieve_reddit_posts", "retrieve_playstore_reviews", "retrieve_all_platforms"}
    ELSE {"retrieve_social_media_posts"}

\* query: the keys of the local `tools` mapping
QueryTools(multi, dbs) ==
    IF multi
    THEN (IF "reddit" \in Range(dbs) THEN {"retrieve_reddit_posts"} ELSE {})
         \cup (IF "playstore" \in Range(dbs) THEN {"retrieve_playstore_reviews"} ELSE {})
         \cup {"retrieve_all_platforms"}
    ELSE {"retrieve_social_media_posts"}

\* the tools the system prompt of _research_agent tells the model to use
ResearchPromptTools ==
    {"retrieve_carrier_feedback", "retrieve_competitive_comparison",
     "retrieve_platform_specific"}

\* the tools the default system prompt of query() names
DefaultPromptTools(multi, dbs) ==
    IF multi
    THEN (IF "reddit" \in Range(dbs) THEN {"retrieve_reddit_posts"} ELSE {})
         \cup (IF "playstore" \in Range(dbs) THEN {"retrieve_playstore_reviews"} ELSE {})
         \cup {"retrieve_all_platforms"}
    ELSE {"retrieve_social_media_posts"}

\* who called query(): _research_agent with its system prompt, or a caller with none
QueryCallers == {"_research_agent", "query"}

NoCall == [name |-> "", dispatched |-> FALSE, tool_result |-> ""]

\* call_with_tools, lines 175-182, for the tools query() registered: the tool message
\* content for a call of function_name whose implementation succeeds or raises
QueryDispatch(tools, function_name, raises) ==
    IF function_name \notin tools
    THEN [name |-> function_name, dispatched |-> FALSE,
          tool_result |-> "Error: Tool " \o function_name \o " not found"]
    ELSE [name |-> function_name, dispatched |-> TRUE,
          tool_result |-> IF raises THEN "Error executing tool: index unreachable"
                          ELSE "retrieved context"]

QueryIdle ==
    /\ q_pc = "idle"
    /\ q_prompted = {}
    /\ q_tools = {}
    /\ q_iteration = 0
    /\ q_sent = {}
    /\ q_call = NoCall

\* an AgenticRAG was constructed and query() has registered its tools and is about
\* to enter the loop of call_with_tools
QueryInit ==
    /\ \E c \in AgentConfigs :
         /\ multi_index = c.multi_index
         /\ vector_dbs = c.keys
    /\ \E caller \in QueryCallers :
         q_prompted = IF caller = "_research_agent" THEN ResearchPromptTools
                      ELSE DefaultPromptTools(multi_index, vector_dbs)
    /\ q_tools = QueryTools(multi_index, vector_dbs)
    /\ q_pc = "AwaitingModel"
    /\ q_iteration = 0
    /\ q_sent = {}
    /\ q_call = NoCall

\* one completion request carrying self.tool_schemas; the model answers with a tool
\* call, naming a tool of its prompt or of the schemas, or with its final text
QueryModelResponds ==
    /\ q_pc = "AwaitingModel"
    /\ q_iteration < DefaultMaxIterations
    /\ q_iteration' = q_iteration + 1
    /\ q_sent' = q_sent \cup {BuildToolSchemas(multi_index, vector_dbs)}
    /\ \/ \E name \in q_prompted \cup Range(BuildToolSchemas(multi_index, vector_dbs)) :
            /\ q_pc' = "ExecutingTools"
            /\ q_call' = [name |-> name, dispatched |-> FALSE, tool_result |-> ""]
       \/ /\ q_pc' = "Done"
          /\ q_call' = q_call
    /\ UNCHANGED <<q_prompted, q_tools>>
    /\ UNCHANGED agentVars
    /\ UNCHANGED outsideQuery

\* the completion request raises: call_with_tools lets the exception out
QueryRequestFails ==
    /\ q_pc = "AwaitingModel"
    /\ q_iteration < DefaultMaxIterations
    /\ q_iteration' = q_iteration + 1
    /\ q_sent' = q_sent \cup {BuildToolSchemas(multi_index, vector_dbs)}
    /\ q_pc' = "Raised"
    /\ UNCHANGED <<q_prompted, q_tools, q_call>>
    /\ UNCHANGED agentVars
    /\ UNCHANGED outsideQuery

\* the requested tool call is answered with a tool message
QueryExecuteTool ==
    /\ q_pc = "ExecutingTools"
    /\ \E raises \in BOOLEAN :
         q_call' = QueryDispatch(q_tools, q_call.name, raises)
    /\ q_pc' = "AwaitingModel"
    /\ UNCHANGED <<q_prompted, q_tools, q_iteration, q_sent>>
    /\ UNCHANGED agentVars
    /\ UNCHANGED outsideQuery

\* the loop ran out of iterations: the fallback text is returned
QueryExhausted ==
    /\ q_pc = "AwaitingModel"
    /\ q_iteration >= DefaultMaxIterations
    /\ q_pc' = "Exhausted"
    /\ UNCHANGED <<q_prompted, q_tools, q_iteration, q_sent, q_call>>
    /\ UNCHANGED agentVars
    /\ UNCHANGED outsideQuery

QueryNext == QueryModelResponds \/ QueryRequestFails \/ QueryExecuteTool \/ QueryExhausted

----------------------------------------------------------------------------
(* SocialMediaVectorDB.add_posts (src/vector_db.py) and
   MultiCarrierAppStoreCollector._store_in_azure
   (src/multi_carrier_appstore_collector.py), on one carrier's index *)

\* most posts handed to one ingestion operation
MaxBatch == 2
\* most ingestion operations run on the index
MaxUploads == 2

\* the posts submitted: metadata.platform and metadata.post_id
Posts == [platform : {"appstore", "reddit"}, post_id : {"p1", "p2"}]

Batches == UNION {[1..n -> Posts] : n \in 0..MaxBatch}

\* str(uuid.uuid4()): an id no stored document has
Uuid(n) == "doc_" \o ToString(n)

\* the documents add_posts builds for posts, given the number of documents stored
Documents(posts, stored) ==
    [i \in 1..Len(posts) |->
        [id |-> Uuid(stored + i), platform |-> posts[i].platform,
         post_id |-> posts[i].post_id]]

\* add_posts: nothing for an empty list or a failed encoding; else every document
\* built is uploaded
AddPosts(docs, posts, encoded) ==
    IF posts = <<>> \/ ~encoded THEN docs
    ELSE docs \o Documents(posts, Len(docs))

\* search(filter=f"post_id eq '{pid}'", top=1) on the index as it is
Existing(docs, pid) == \E i \in 1..Len(docs) : docs[i].post_id = pid

\* _store_in_azure: the reviews kept in new_docs; checked[i] is FALSE when the
\* duplicate check of review i raised
RECURSIVE NewDocs(_, _, _)
NewDocs(docs, reviews, checked) ==
    IF reviews = <<>> THEN <<>>
    ELSE LET rest == NewDocs(docs, Tail(reviews), Tail(checked)) IN
         IF Head(checked) /\ Existing(docs, Head(reviews).post_id)
         THEN rest
         ELSE <<Head(reviews)>> \o rest

IngestIdle ==
    /\ index_docs = <<>>
    /\ uploads = <<>>

\* an ingestion operation, what it was given and how many documents it stored
Upload(op, posts, before, after) ==
    [op |-> op, posts |-> posts, stored |-> Len(after) - Len(before)]

\* the contents of the index when a retrieval call starts
LoadedIndexes ==
    {<<>>,
     Documents(<<[platform |-> "reddit", post_id |-> "p1"]>>, 0),
     Documents(<<[platform |-> "reddit", post_id |-> "p1"],
                 [platform |-> "appstore", post_id |-> "p2"]>>, 0)}

\* documents were ingested before; no ingestion runs now
IndexLoaded ==
    /\ index_docs \in LoadedIndexes
    /\ uploads = <<>>

\* add_posts called with a list of posts
AddPostsCall ==
    /\ Len(uploads) < MaxUploads
    /\ \E posts \in Batches, encoded \in BOOLEAN :
         /\ index_docs' = AddPosts(index_docs, posts, encoded)
         /\ uploads' = Append(uploads, Upload("add_posts", posts, index_docs, index_docs'))
    /\ UNCHANGED outsideIngest

\* add_posts called and upload_documents raises: nothing is stored
AddPostsUploadFails ==
    /\ Len(uploads) < MaxUploads
    /\ \E posts \in Batches \ {<<>>} :
         uploads' = Append(uploads, Upload("add_posts raised", posts, index_docs, index_docs))
    /\ UNCHANGED index_docs
    /\ UNCHANGED outsideIngest

\* _store_in_azure called with the reviews collected for the carrier
StoreInAzure ==
    /\ Len(uploads) < MaxUploads
    /\ \E reviews \in Batches, encoded \in BOOLEAN :
         \E checked \in [1..Len(reviews) -> BOOLEAN] :
            /\ index_docs' =
                   AddPosts(index_docs, NewDocs(index_docs, reviews, checked), encoded)
            /\ uploads' = Append(uploads,
                                 Upload("_store_in_azure", reviews, index_docs, index_docs'))
    /\ UNCHANGED outsideIngest

IngestNext == AddPostsCall \/ AddPostsUploadFails \/ StoreInAzure

----------------------------------------------------------------------------
(* SocialMediaVectorDB.__init__ (src/vector_db.py) *)

CARRIER_INDEX_NAMES ==
    [tmobile |-> "tmobile-all-reviews", att |-> "att-all-reviews",
     verizon |-> "verizon-all-reviews"]

DEFAULT_INDEX == "tmobile-all-reviews"

\* the carrier arguments tried; NONE and "" are the falsy ones
CarrierArgs == {"tmobile", "att", "verizon", "TMobile", "sprint", "", NONE}

\* str.lower() on the carrier arguments
Lower(s) == IF s = "TMobile" THEN "tmobile" ELSE s

\* endpoint and api_key: whether the argument or the environment gives a value
DbArgs ==
    [endpoint : BOOLEAN, api_key : BOOLEAN, index_name : {NONE, "custom-index"},
     carrier : CarrierArgs]

\* carrier.lower() if carrier else 'tmobile'
CarrierOf(carrier) == IF carrier \in {"", NONE} THEN "tmobile" ELSE Lower(carrier)

\* KnownCarrier accepting every carrier
KnownCarrierAny(carrier) == TRUE

\* self.carrier in CARRIER_INDEX_NAMES
KnownCarrier(carrier) == carrier \in DOMAIN CARRIER_INDEX_NAMES

\* CARRIER_INDEX_NAMES.get(self.carrier, DEFAULT_INDEX) unless an index_name is given
IndexNameOf(index_name, carrier) ==
    IF index_name # NONE THEN index_name
    ELSE IF carrier \in DOMAIN CARRIER_INDEX_NAMES THEN CARRIER_INDEX_NAMES[carrier]
    ELSE DEFAULT_INDEX

NoSelf == [carrier |-> NONE, index_name |-> NONE]

DbIdle ==
    /\ db_args = [endpoint |-> FALSE, api_key |-> FALSE, index_name |-> NONE,
                  carrier |-> NONE]
    /\ db_pc = "idle"
    /\ db_self = NoSelf
    /\ db_events = <<>>
    /\ db_error = NONE

\* SocialMediaVectorDB(...) has just been called
DbInit ==
    /\ db_args \in DbArgs
    /\ db_pc = "validate"
    /\ db_self = NoSelf
    /\ db_events = <<>>
    /\ db_error = NONE

\* lines 53-69: the checks of the arguments, before any client exists
DbValidate ==
    /\ db_pc = "validate"
    /\ IF ~db_args.endpoint
       THEN /\ db_pc' = "raised"
            /\ db_error' = "ValueError: AZURE_SEARCH_ENDPOINT missing"
            /\ db_self' = db_self
       ELSE IF ~db_args.api_key
       THEN /\ db_pc' = "raised"
            /\ db_error' = "ValueError: AZURE_SEARCH_API_KEY missing"
            /\ db_self' = db_self
       ELSE IF ~KnownCarrier(CarrierOf(db_args.carrier))
       THEN /\ db_pc' = "raised"
            /\ db_error' = "ValueError: carrier must be one of the known carriers"
            /\ db_self' = [db_self EXCEPT !.carrier = CarrierOf(db_args.carrier)]
       ELSE /\ db_pc' = "ensure"
            /\ db_error' = db_error
            /\ db_self' = [carrier |-> CarrierOf(db_args.carrier),
                           index_name |-> IndexNameOf(db_args.index_name,
                                                      CarrierOf(db_args.carrier))]
    /\ UNCHANGED <<db_args, db_events>>
    /\ UNCHANGED outsideDb

\* what the index service answers to get_index, and to the call that follows it
GetIndexOutcomes == {"exists", "404", "429", "other"}

FollowUpOutcomes == {"ok", "failed"}

\* _ensure_index: get_index, then create_or_update_index on 404 or
\* get_document_count on 429; every other failure is raised again
DbEnsureIndex ==
    /\ db_pc = "ensure"
    /\ \E got \in GetIndexOutcomes, then \in FollowUpOutcomes :
         LET lookup == <<"get_index", db_self.index_name>>
             create == <<"create_or_update_index", db_self.index_name>>
             count == <<"get_document_count", db_self.index_name>>
         IN CASE got = "exists" ->
                   /\ db_events' = Append(db_events, lookup)
                   /\ db_pc' = "diagnostics"
                   /\ db_error' = db_error
              [] got = "404" ->
                   /\ db_events' = db_events \o <<lookup, create>>
                   /\ db_pc' = IF then = "ok" THEN "diagnostics" ELSE "raised"
                   /\ db_error' = IF then = "ok" THEN db_error ELSE "create_or_update_index failed"
              [] got = "429" ->
                   /\ db_events' = db_events \o <<lookup, count>>
                   /\ db_pc' = IF then = "ok" THEN "diagnostics" ELSE "raised"
                   /\ db_error' = IF then = "ok" THEN db_error
                                  ELSE "ValueError: Cannot access index"
              [] OTHER ->
                   /\ db_events' = Append(db_events, lookup)
                   /\ db_pc' = "raised"
                   /\ db_error' = "get_index failed"
    /\ UNCHANGED <<db_args, db_self>>
    /\ UNCHANGED outsideDb

\* _log_diagnostics: get_document_count, its failure only logged
DbLogDiagnostics ==
    /\ db_pc = "diagnostics"
    /\ db_events' = Append(db_events, <<"get_document_count", db_self.index_name>>)
    /\ db_pc' = "constructed"
    /\ UNCHANGED <<db_args, db_self, db_error>>
    /\ UNCHANGED outsideDb

DbNext == DbValidate \/ DbEnsureIndex \/ DbLogDiagnostics

----------------------------------------------------------------------------
(* SocialMediaVectorDB.remove_duplicates (src/vector_db.py) *)

\* no remove_duplicates call was made
DedupIdle == dedup = [pc |-> "idle"]

\* documents in the index when remove_duplicates is called, at most
MaxDocs == 3

\* a text field the service returns as null
TextNone == "<null>"

\* the fields remove_duplicates selects: post_id, text and the embedding, whose
\* components are in units of 0.00001; <<>> is a document without embedding
ScannedFields ==
    {[post_id |-> "p1", text |-> "Slow data ", embedding |-> <<12341, 50000>>],
     [post_id |-> "p1", text |-> "slow data", embedding |-> <<12344, 50000>>],
     [post_id |-> "", text |-> "App crashes", embedding |-> <<>>],
     [post_id |-> "p2", text |-> TextNone, embedding |-> <<12346, 50000>>]}

\* the document ids, in the order the index returns the documents
DocId(i) == CASE i = 1 -> "d1" [] i = 2 -> "d2" [] i = 3 -> "d3" [] OTHER -> "d4"

\* the contents an index can have: every list of at most MaxDocs documents
DedupIndexes ==
    UNION {{[i \in 1..n |->
                [id |-> DocId(i), post_id |-> f[i].post_id, text |-> f[i].text,
                 embedding |-> f[i].embedding]] :
            f \in [1..n -> ScannedFields]} : n \in 0..MaxDocs}

\* the values of the `by` parameter: the three criteria and one that is none
Criteria == {"embedding", "post_id", "text", "author"}

\* text_val.strip().lower()
StripLower(text) ==
    CASE text = "Slow data " -> "slow data"
      [] text = "App crashes" -> "app crashes"
      [] OTHER -> text

\* round(float(x), 4) of a value in units of 0.00001 (no value ends in 5)
Round4(x) == ((x + 5) \div 10) * 10

\* a criterion key: the string built, kept as its prefix, text and numbers
CriterionKey(prefix, text, rounded) == [prefix |-> prefix, text |-> text, rounded |-> rounded]

\* .strip() of a null text raises AttributeError
KeyRaises(by, doc) ==
    /\ doc.text = TextNone
    /\ by = "text" \/ (by = "embedding" /\ doc.embedding = <<>>)

\* the key of a document under the criterion (the BAD_EMB branch needs a
\* non-numeric embedding component, which a Collection(Edm.Single) field never holds)
KeyOf(by, doc) ==
    CASE by = "post_id" -> CriterionKey("", doc.post_id, <<>>)
      [] by = "text" -> CriterionKey("", StripLower(doc.text), <<>>)
      [] by = "embedding" ->
            IF doc.embedding = <<>>
            THEN CriterionKey("NOEMB::", StripLower(doc.text), <<>>)
            ELSE CriterionKey("", "", [j \in DOMAIN doc.embedding |->
                                          Round4(doc.embedding[j])])

\* key in seen
InSeen(seen, key) == \E j \in DOMAIN seen : seen[j].key = key

\* seen[key]
SeenAt(seen, key) == seen[CHOOSE j \in DOMAIN seen : seen[j].key = key].id

\* the id of the document first seen with the key
ToDeleteOriginal(doc, original_id) == original_id

\* to_delete_keys.append(doc_id): the id of the document scanned later
ToDelete(doc, original_id) == doc.id

\* deleting whenever duplicates were found
DeleteAllowedAlways(dry_run, to_delete_keys) == to_delete_keys # <<>>

\* if not dry_run and to_delete_keys
DeleteAllowed(dry_run, to_delete_keys) == ~dry_run /\ to_delete_keys # <<>>

\* the documents left after those with the given ids were deleted
WithoutIds(docs, ids) ==
    LET Kept(d) == d.id \notin ids IN SelectSeq(docs, Kept)

\* the index contents when the call starts
DedupInit ==
    /\ index_docs \in DedupIndexes
    /\ uploads = <<>>
    /\ DedupIdle

\* remove_duplicates(by, dry_run): the criterion check and the locals
RemoveDuplicatesCall ==
    /\ dedup.pc = "idle"
    /\ \E by \in Criteria, dry_run \in BOOLEAN :
         dedup' = [pc |-> IF by \in {"embedding", "post_id", "text"} THEN "scan" ELSE "raised",
                   by |-> by, dry_run |-> dry_run, before |-> index_docs,
                   total |-> 0, duplicate_count |-> 0, to_delete_keys |-> <<>>,
                   details |-> <<>>, seen |-> <<>>, delete_calls |-> <<>>,
                   summary |-> <<>>]
    /\ UNCHANGED <<index_docs, outsideDedup>>

\* one iteration of `for doc in self._iterate_all_documents(...)`
ScanDocument ==
    /\ dedup.pc = "scan"
    /\ dedup.total < Len(index_docs)
    /\ LET doc == index_docs[dedup.total + 1]
           key == KeyOf(dedup.by, doc)
       IN dedup' =
            IF KeyRaises(dedup.by, doc)
            THEN [dedup EXCEPT !.pc = "raised", !.total = @ + 1]
            ELSE IF InSeen(dedup.seen, key)
            THEN [dedup EXCEPT !.total = @ + 1,
                               !.duplicate_count = @ + 1,
                               !.details = Append(@, [duplicate_id |-> doc.id,
                                                      original_id |-> SeenAt(dedup.seen, key),
                                                      post_id |-> doc.post_id,
                                                      criterion_key |-> key]),
                               !.to_delete_keys =
                                   Append(@, ToDelete(doc, SeenAt(dedup.seen, key)))]
            ELSE [dedup EXCEPT !.total = @ + 1,
                               !.seen = Append(@, [key |-> key, id |-> doc.id])]
    /\ UNCHANGED <<index_docs, outsideDedup>>

\* the iteration ends: every document was yielded, or the search raised and
\* _iterate_all_documents logged the error and returned
IterationEnds ==
    /\ dedup.pc = "scan"
    /\ dedup' = [dedup EXCEPT !.pc = "scanned"]
    /\ UNCHANGED <<index_docs, outsideDedup>>

\* the summary dict returned
Summary(d, unique, removed) ==
    [criterion |-> d.by, total |-> d.total, unique |-> unique,
     duplicates |-> d.duplicate_count, removed |-> removed, dry_run |-> d.dry_run,
     details |-> d.details]

\* the rest of the call: unique = len(seen), the deletion when it is allowed
\* (delete_documents raises, or reports which deletions succeeded) and the summary
RemoveDuplicatesReturn ==
    /\ dedup.pc = "scanned"
    /\ LET unique == Len(dedup.seen) IN
       IF DeleteAllowed(dedup.dry_run, dedup.to_delete_keys)
       THEN \/ /\ dedup' = [dedup EXCEPT !.pc = "returned",
                               !.delete_calls = Append(@, dedup.to_delete_keys),
                               !.summary = Summary(dedup, unique, 0)]
               /\ index_docs' = index_docs
            \/ \E succeeded \in SUBSET Range(dedup.to_delete_keys) :
               /\ dedup' = [dedup EXCEPT !.pc = "returned",
                               !.delete_calls = Append(@, dedup.to_delete_keys),
                               !.summary = Summary(dedup, unique, Cardinality(succeeded))]
               /\ index_docs' = WithoutIds(index_docs, succeeded)
       ELSE /\ dedup' = [dedup EXCEPT !.pc = "returned",
                               !.summary = Summary(dedup, unique, 0)]
            /\ index_docs' = index_docs
    /\ UNCHANGED outsideDedup

DedupNext == RemoveDuplicatesCall \/ ScanDocument \/ IterationEnds \/ RemoveDuplicatesReturn

----------------------------------------------------------------------------
(* generate_summary_json (src/ai_backend.py) *)

\* no generate_summary_json call was made
SummaryIdle == summary_call = [pc |-> "idle"]

\* the fallback CHI score and the default competitor scores, in tenths
FallbackChiScore == 477

DefaultAttScore == 877

DefaultVerizonScore == 812

\* an Optional value: <<>> is None (or an absent key), <<v>> is the value v
Some(v) == <<v>>

\* the carriers of the competitive summary and their colours
CarrierColor(carrier) ==
    CASE carrier = "T-Mobile" -> "#E20074"
      [] carrier = "AT&T" -> "#FFC300"
      [] carrier = "Verizon" -> "#CCCCCC"

\* an entry of competitive_summary
CarrierScore(carrier, score) ==
    [carrier |-> carrier, score |-> score, color |-> CarrierColor(carrier)]

\* what calculate_chi_for_carrier gives: None (returned, or an exception that
\* generate_summary_json logs) or a CHI dict
ChiOutcomes(carrier) ==
    {<<>>,
     Some([chi_score |-> CASE carrier = "tmobile" -> 612
                           [] carrier = "att" -> 701
                           [] carrier = "verizon" -> 745,
           chi_trend |-> 12, trend_direction |-> "up", trend_period |-> "Last Hour"])}

\* primary_chi: the first CHI available, or the fallback values
PrimaryChi(tmobile_chi, att_chi, verizon_chi) ==
    IF tmobile_chi # <<>> THEN tmobile_chi[1]
    ELSE IF att_chi # <<>> THEN att_chi[1]
    ELSE IF verizon_chi # <<>> THEN verizon_chi[1]
    ELSE [chi_score |-> FallbackChiScore, chi_trend |-> 0, trend_direction |-> "stable",
          trend_period |-> "Last Hour"]

\* what _safe_research_query gives: None or a research summary
ResearchOutcomes == {<<>>, Some("research summary")}

\* what _extract_json_from_research gives, after `if not extracted_data:
\* extracted_data = {}`: each key absent or present
ExtractedOutcomes ==
    [action_cards : {<<>>, Some(<<"A101">>)},
     competitive_summary :
        {<<>>, Some(<<CarrierScore("T-Mobile", 500), CarrierScore("AT&T", 800)>>)}]

\* d.get(key, default) of an Optional entry
GetOr(entry, default) == IF entry = <<>> THEN default ELSE entry[1]

\* the entries appended for the CHI scores that were calculated
CalculatedScores(tmobile_chi, att_chi, verizon_chi) ==
    (IF tmobile_chi # <<>> THEN <<CarrierScore("T-Mobile", tmobile_chi[1].chi_score)>> ELSE <<>>)
    \o (IF att_chi # <<>> THEN <<CarrierScore("AT&T", att_chi[1].chi_score)>> ELSE <<>>)
    \o (IF verizon_chi # <<>> THEN <<CarrierScore("Verizon", verizon_chi[1].chi_score)>> ELSE <<>>)

\* [c["carrier"] for c in competitive_summary]
CarriersIn(summary) == {summary[i].carrier : i \in DOMAIN summary}

\* extracted_scores.get(carrier, default)
ExtractedScore(extracted_competitive, carrier, default) ==
    IF carrier \in CarriersIn(extracted_competitive)
    THEN extracted_competitive[CHOOSE i \in DOMAIN extracted_competitive :
                                  extracted_competitive[i].carrier = carrier].score
    ELSE default

\* the missing carriers filled in: T-Mobile inserted first, AT&T and Verizon appended
FillMissing(summary, tmobile_score, att_score, verizon_score) ==
    LET present == CarriersIn(summary) IN
    (IF "T-Mobile" \notin present THEN <<CarrierScore("T-Mobile", tmobile_score)>> ELSE <<>>)
    \o summary
    \o (IF "AT&T" \notin present THEN <<CarrierScore("AT&T", att_score)>> ELSE <<>>)
    \o (IF "Verizon" \notin present THEN <<CarrierScore("Verizon", verizon_score)>> ELSE <<>>)

\* competitive_summary of the CHI-scores-only path
CompetitiveChiOnly(c) ==
    FillMissing(CalculatedScores(c.tmobile_chi, c.att_chi, c.verizon_chi),
                c.primary_chi.chi_score, DefaultAttScore, DefaultVerizonScore)

\* competitive_summary of the research-available path
CompetitiveWithResearch(c, extracted_data) ==
    LET calculated == CalculatedScores(c.tmobile_chi, c.att_chi, c.verizon_chi)
        extracted_competitive == GetOr(extracted_data.competitive_summary, <<>>)
    IN IF calculated = <<>>
       THEN GetOr(extracted_data.competitive_summary,
                  <<CarrierScore("T-Mobile", c.primary_chi.chi_score),
                    CarrierScore("AT&T", DefaultAttScore),
                    CarrierScore("Verizon", DefaultVerizonScore)>>)
       ELSE IF Len(calculated) < 3
       THEN FillMissing(calculated,
                ExtractedScore(extracted_competitive, "T-Mobile", c.primary_chi.chi_score),
                ExtractedScore(extracted_competitive, "AT&T", DefaultAttScore),
                ExtractedScore(extracted_competitive, "Verizon", DefaultVerizonScore))
       ELSE calculated

\* summary_data; trend_data is kept as the arguments it is generated from
SummaryData(primary_chi, action_cards, competitive_summary) ==
    [chi_score |-> primary_chi.chi_score, chi_trend |-> primary_chi.chi_trend,
     trend_direction |-> primary_chi.trend_direction,
     trend_period |-> primary_chi.trend_period,
     action_cards |-> action_cards, competitive_summary |-> competitive_summary,
     trend_data |-> <<primary_chi.chi_score, primary_chi.chi_trend>>]

\* the names bound in generate_summary_json when it logs the CHI score, and the
\* module-level names of ai_backend
NamesInScope ==
    {"output_file", "tmobile_chi", "att_chi", "verizon_chi", "primary_chi", "query",
     "research_summary", "json_schema", "extraction_prompt", "extracted_data",
     "competitive_summary", "trend_data", "summary_data", "f",
     "logger", "json", "os", "calculate_chi_for_carrier", "_safe_research_query",
     "_extract_json_from_research", "_generate_trend_data_from_chi"}

\* the names read by the two log lines after the save of the research path
LoggedNames == {"logger", "output_file", "chi_data"}

\* evaluating a statement that reads the names raises NameError unless all are bound
RaisesNameError(names) == ~(names \subseteq NamesInScope)

\* with open(output_file, 'w') as f: json.dump(summary_data, f): the file
\* afterwards; open raises when the path cannot be written
WriteOutcomes(summary_data) == {<<>>, Some(summary_data)}

\* generate_summary_json is called: the three CHI calculations and primary_chi
CalculateChiScores ==
    /\ summary_call.pc = "idle"
    /\ \E t \in ChiOutcomes("tmobile"), a \in ChiOutcomes("att"), v \in ChiOutcomes("verizon") :
         summary_call' = [pc |-> "research", tmobile_chi |-> t, att_chi |-> a,
                          verizon_chi |-> v, primary_chi |-> PrimaryChi(t, a, v),
                          research_summary |-> <<>>, summary_data |-> <<>>,
                          file |-> <<>>, result |-> <<>>, cached |-> <<>>]
    /\ UNCHANGED outsideSummary

\* research_summary = _safe_research_query(query)
ResearchQuery ==
    /\ summary_call.pc = "research"
    /\ \E r \in ResearchOutcomes :
         summary_call' = [summary_call EXCEPT !.research_summary = r,
                             !.pc = IF r = <<>> THEN "chi_only" ELSE "extract"]
    /\ UNCHANGED outsideSummary

\* the path of `if research_summary is None`: summary, save and return
ChiScoresOnly ==
    /\ summary_call.pc = "chi_only"
    /\ LET data == SummaryData(summary_call.primary_chi, <<>>, CompetitiveChiOnly(summary_call)) IN
       \E written \in WriteOutcomes(data) :
         summary_call' = [summary_call EXCEPT !.summary_data = Some(data),
                             !.file = written,
                             !.result = IF written = <<>> THEN <<>> ELSE Some(data),
                             !.pc = "returned"]
    /\ UNCHANGED outsideSummary

\* the research-available path up to the save: extraction, competitive summary,
\* summary_data and the write of the file
ExtractAndSave ==
    /\ summary_call.pc = "extract"
    /\ \E extracted_data \in ExtractedOutcomes :
         LET data == SummaryData(summary_call.primary_chi,
                                 GetOr(extracted_data.action_cards, <<>>),
                                 CompetitiveWithResearch(summary_call, extracted_data)) IN
         \E written \in WriteOutcomes(data) :
            summary_call' = [summary_call EXCEPT !.summary_data = Some(data),
                                !.file = written,
                                !.pc = IF written = <<>> THEN "returned" ELSE "saved"]
    /\ UNCHANGED outsideSummary

\* the two log lines after the save and `return summary_data`; an exception is
\* caught by the outer handler, which returns None
LogAndReturn ==
    /\ summary_call.pc = "saved"
    /\ summary_call' = [summary_call EXCEPT !.pc = "returned",
                           !.result = IF RaisesNameError(LoggedNames) THEN <<>>
                                      ELSE summary_call.summary_data]
    /\ UNCHANGED outsideSummary

\* a later get_ai_summary_data: the cached file is loaded when it exists
GetAiSummaryData ==
    /\ summary_call.pc = "returned"
    /\ summary_call.file # <<>>
    /\ summary_call' = [summary_call EXCEPT !.pc = "served", !.cached = summary_call.file]
    /\ UNCHANGED outsideSummary

SummaryNext ==
    CalculateChiScores \/ ResearchQuery \/ ChiScoresOnly \/ ExtractAndSave \/ LogAndReturn
    \/ GetAiSummaryData

----------------------------------------------------------------------------
(* ScheduledCollector.run_scheduled (src/scheduled_collector.py) *)

\* run_scheduled was not called
SchedulerIdle == scheduler = [pc |-> "idle"]

\* the largest max_cycles argument explored
MaxCyclesArg == 3

\* the cycles an unbounded run is followed for
MaxRuns == 11

\* the max_cycles argument: None (the default; --max-cycles not given) or an integer
MaxCyclesArgs == {<<>>} \cup {Some(n) : n \in -1..MaxCyclesArg}

\* the truth value of max_cycles in `if max_cycles and ...`: None and 0 are false
TruthyInt(max_cycles) == max_cycles # <<>> /\ max_cycles[1] # 0

\* if max_cycles and cycle >= max_cycles
ReachedMaxCycles(max_cycles, cycle) == TruthyInt(max_cycles) /\ cycle >= max_cycles[1]

\* run_scheduled(max_cycles) is called: the banner is logged and cycle = 0
RunScheduled ==
    /\ scheduler.pc = "idle"
    /\ \E max_cycles \in MaxCyclesArgs :
         scheduler' = [pc |-> "collect", max_cycles |-> max_cycles, cycle |-> 0,
                       total_runs |-> 0, sleeps |-> 0, statistics |-> 0,
                       interrupted |-> FALSE]
    /\ UNCHANGED outsideScheduler

\* one pass of the loop body up to the sleep: run_collection_cycle, cycle += 1,
\* the max_cycles check (break, then the finally block prints the statistics)
\* and the statistics of every tenth cycle
CollectionCycle ==
    /\ scheduler.pc = "collect"
    /\ scheduler.total_runs < MaxRuns
    /\ LET cycle == scheduler.cycle + 1 IN
       scheduler' =
         IF ReachedMaxCycles(scheduler.max_cycles, cycle)
         THEN [scheduler EXCEPT !.cycle = cycle, !.total_runs = @ + 1,
                                !.statistics = @ + 1, !.pc = "stopped"]
         ELSE [scheduler EXCEPT !.cycle = cycle, !.total_runs = @ + 1,
                                !.statistics = IF cycle % 10 = 0 THEN @ + 1 ELSE @,
                                !.pc = "sleep"]
    /\ UNCHANGED outsideScheduler

\* time.sleep(self.INTERVAL_SECONDS) returns
Sleep ==
    /\ scheduler.pc = "sleep"
    /\ scheduler' = [scheduler EXCEPT !.sleeps = @ + 1, !.pc = "collect"]
    /\ UNCHANGED outsideScheduler

\* Ctrl+C during a cycle or the sleep: except KeyboardInterrupt, then finally
KeyboardInterrupt ==
    /\ scheduler.pc \in {"collect", "sleep"}
    /\ scheduler' = [scheduler EXCEPT !.interrupted = TRUE, !.statistics = @ + 1,
                                      !.pc = "stopped"]
    /\ UNCHANGED outsideScheduler

SchedulerNext == RunScheduled \/ CollectionCycle \/ Sleep \/ KeyboardInterrupt

----------------------------------------------------------------------------
(* MultiCarrierPlayStoreCollector.collect_carrier_reviews
   (src/multi_carrier_playstore_collector.py) *)

\* no collect_carrier_reviews call was made
ScanIdle == scan = [pc |-> "idle"]

\* reviews one reviews(...) call returns, at most (the count requested)
MaxReviews == 2

\* the largest stop_after_duplicates explored
MaxStop == 2

\* CARRIER_APPS: the app names of each carrier, two apps of each kept
CARRIER_APPS ==
    [tmobile |-> <<"T-Mobile", "T-Mobile Scam Shield">>,
     verizon |-> <<"My Verizon", "Verizon Messages">>,
     att |-> <<"myAT&T", "AT&T Call Protect">>]

\* the carrier arguments tried: a known one in mixed case, and an unknown one
ScanCarriers == {"TMobile", "sprint"}

\* the reviewId of a fetched review; "" is a review without one
ReviewIds == {"r1", "r2", ""}

\* format_review: the post_id of a review; one without reviewId gets the app
\* name and the timestamp of the formatting
PostId(carrier, app_name, review_id, timestamp) ==
    IF review_id # ""
    THEN <<"playstore_", carrier, "_", review_id>>
    ELSE <<"playstore_", carrier, "_", app_name, "_", timestamp>>

\* the formatted review
FormatReview(carrier, app_name, review_id, timestamp) ==
    [app_name |-> app_name, review_id |-> review_id,
     post_id |-> PostId(carrier, app_name, review_id, timestamp)]

\* the Play Store post_ids the carrier's index holds
StoredPostIds(carrier) == {{}, {PostId(carrier, "T-Mobile", "r1", "")}}

\* _is_duplicate: a cache hit, or a hit of the index search; a search that
\* raises is logged and answers False
IsDuplicate(cache, stored, post_id, search_raises) ==
    \/ post_id \in cache
    \/ ~search_raises /\ post_id \in stored

\* the cache after _is_duplicate: a hit of the index is added
CacheAfterCheck(cache, stored, post_id, search_raises) ==
    IF post_id \notin cache /\ ~search_raises /\ post_id \in stored
    THEN cache \cup {post_id}
    ELSE cache

\* the count after a review that does not reset it
NextConsecutiveNoReset(consecutive_duplicates, duplicate) ==
    IF duplicate THEN consecutive_duplicates + 1 ELSE consecutive_duplicates

\* consecutive_duplicates after a review was judged
NextConsecutive(consecutive_duplicates, duplicate) ==
    IF duplicate THEN consecutive_duplicates + 1 ELSE 0

\* collect_carrier_reviews(carrier, stop_after_duplicates=...) is called: the
\* carrier check and _load_existing_ids_cache, which leaves the cache empty when
\* the index search fails
CollectCarrierReviews ==
    /\ scan.pc = "idle"
    /\ \E carrier \in ScanCarriers, stop \in 1..MaxStop :
         LET carrier_lower == Lower(carrier) IN
         IF carrier_lower \notin DOMAIN CARRIER_APPS
         THEN scan' = [pc |-> "returned", carrier |-> carrier_lower,
                       stop_after_duplicates |-> stop, stored |-> {}, cache |-> {},
                       app |-> 0, new_reviews |-> <<>>, consecutive_duplicates |-> 0,
                       total_fetched |-> 0, stopped |-> FALSE, all_reviews |-> <<>>,
                       judged |-> <<>>]
         ELSE \E stored \in StoredPostIds(carrier_lower) :
              \E cache \in {{}, stored} :
                scan' = [pc |-> "app", carrier |-> carrier_lower,
                         stop_after_duplicates |-> stop, stored |-> stored,
                         cache |-> cache, app |-> 1, new_reviews |-> <<>>,
                         consecutive_duplicates |-> 0, total_fetched |-> 0,
                         stopped |-> FALSE, all_reviews |-> <<>>, judged |-> <<>>]
    /\ UNCHANGED outsideScan

\* the start of one app of `for package_id, app_name in apps.items()`: the
\* locals are reset and reviews(...) is called; when it raises, the error is
\* logged and the app contributes no review
FetchReviews ==
    /\ scan.pc = "app"
    /\ \/ scan' = [scan EXCEPT !.new_reviews = <<>>, !.consecutive_duplicates = 0,
                               !.total_fetched = 0, !.stopped = FALSE, !.pc = "scan"]
       \/ scan' = [scan EXCEPT !.new_reviews = <<>>, !.consecutive_duplicates = 0,
                               !.total_fetched = 0, !.stopped = FALSE,
                               !.pc = IF scan.app < Len(CARRIER_APPS[scan.carrier])
                                      THEN "app" ELSE "returned",
                               !.app = IF scan.app < Len(CARRIER_APPS[scan.carrier])
                                       THEN @ + 1 ELSE @]
    /\ UNCHANGED outsideScan

\* one iteration of `for review in result`
ScanReview ==
    /\ scan.pc = "scan"
    /\ ~scan.stopped
    /\ scan.total_fetched < MaxReviews
    /\ \E review_id \in ReviewIds, search_raises \in BOOLEAN :
         LET app_name == CARRIER_APPS[scan.carrier][scan.app]
             formatted == FormatReview(scan.carrier, app_name, review_id,
                                       <<scan.app, scan.total_fetched>>)
             post_id == formatted.post_id
             duplicate == IsDuplicate(scan.cache, scan.stored, post_id, search_raises)
             consecutive == NextConsecutive(scan.consecutive_duplicates, duplicate)
         IN scan' = [scan EXCEPT
                !.total_fetched = @ + 1,
                !.consecutive_duplicates = consecutive,
                !.stopped = duplicate /\ consecutive >= scan.stop_after_duplicates,
                !.new_reviews = IF duplicate THEN @ ELSE Append(@, formatted),
                !.cache = IF duplicate
                          THEN CacheAfterCheck(@, scan.stored, post_id, search_raises)
                          ELSE @ \cup {post_id},
                !.judged = Append(@, [app |-> scan.app, post_id |-> post_id,
                                      duplicate |-> duplicate])]
    /\ UNCHANGED outsideScan

\* the scan of the app ends: after the break, when the result is exhausted, or on
\* an exception that is logged; all_reviews.extend(new_reviews), then the next
\* app or the return
FinishApp ==
    /\ scan.pc = "scan"
    /\ scan' = [scan EXCEPT
           !.all_reviews = @ \o scan.new_reviews,
           !.pc = IF scan.app < Len(CARRIER_APPS[scan.carrier]) THEN "app" ELSE "returned",
           !.app = IF scan.app < Len(CARRIER_APPS[scan.carrier]) THEN @ + 1 ELSE @]
    /\ UNCHANGED outsideScan

ScanNext == CollectCarrierReviews \/ FetchReviews \/ ScanReview \/ FinishApp

----------------------------------------------------------------------------
(* Concurrent call_with_tools sessions on one client (src/nemotron_client.py) *)

\* no concurrent session was started
SessionsIdle == sessions = <<>>

\* the sessions run concurrently on the one client
SessionIds == {1, 2}

\* the user prompt each caller passes
UserPromptOf(s) == "user prompt " \o ToString(s)

\* messages = [{"role": "system", ...}, {"role": "user", ...}] of session s
InitialMessagesOf(s) ==
    <<Message("system", SystemPrompt, <<>>, NONE),
      Message("user", UserPromptOf(s), <<>>, NONE)>>

\* what stands in the log of a session for a request that raised
RequestFailure == Message("error", NONE, <<>>, NONE)

\* the assistant messages the endpoint may answer a request with: a final
\* answer or one tool call, to a registered tool or to one that is not
ConcurrentResponses(msgs) ==
    {Message("assistant", c, calls, NONE) :
        c \in {NONE, "A"},
        calls \in {<<>>} \cup
            {<<[id |-> CallId(CallsRequested(msgs) + 1), name |-> n,
                arguments |-> "{\"search_query\": \"x\"}"]>> : n \in {"lookup", "ghost"}}}

\* every session appending to the list of session 1
TranscriptShared(ss, s) == ss[1].messages

\* the `messages` list of session s: a local of its call_with_tools frame
Transcript(ss, s) == ss[s].messages

\* the frame of a session when call_with_tools starts
SessionFrame(s) ==
    [messages |-> InitialMessagesOf(s), pc |-> "AwaitingModel", iteration |-> 0,
     max_iterations |-> MaxIter, tool_calls |-> <<>>, tc |-> 1, result |-> NoResult,
     received |-> <<>>, own |-> <<>>]

\* two callers have entered call_with_tools on the same client
SessionsInit == sessions = [s \in SessionIds |-> SessionFrame(s)]

\* session s: one pass of lines 144-163, the request is answered with `message`
SessionModelResponds(s) ==
    /\ sessions[s].pc = "AwaitingModel"
    /\ sessions[s].iteration < sessions[s].max_iterations
    /\ \E message \in ConcurrentResponses(Transcript(sessions, s)) :
         sessions' = [sessions EXCEPT
            ![s].iteration = @ + 1,
            ![s].messages = Append(Transcript(sessions, s), message),
            ![s].received = Append(@, message),
            ![s].own = Append(@, message),
            ![s].result = IF NoToolCalls(message) THEN message.content ELSE @,
            ![s].pc = IF NoToolCalls(message) THEN "Done" ELSE "ExecutingTools",
            ![s].tool_calls = IF NoToolCalls(message) THEN @ ELSE message.tool_calls,
            ![s].tc = IF NoToolCalls(message) THEN @ ELSE 1]
    /\ UNCHANGED outsideSessions

\* session s: _chat_completions raises and the exception leaves call_with_tools
SessionRequestFails(s) ==
    /\ sessions[s].pc = "AwaitingModel"
    /\ sessions[s].iteration < sessions[s].max_iterations
    /\ sessions' = [sessions EXCEPT ![s].iteration = @ + 1,
                                    ![s].received = Append(@, RequestFailure),
                                    ![s].pc = "Raised"]
    /\ UNCHANGED outsideSessions

\* session s: one pass of `for tc in tool_calls` (lines 166-189)
SessionExecuteToolCall(s) ==
    /\ sessions[s].pc = "ExecutingTools"
    /\ LET call == sessions[s].tool_calls[sessions[s].tc]
           d == DispatchCall(call.name, ParseArgs(call.arguments))
           last == sessions[s].tc >= Len(sessions[s].tool_calls)
       IN sessions' = [sessions EXCEPT
            ![s].messages = Append(Transcript(sessions, s), ToolMessage(call, d.tool_result)),
            ![s].own = Append(@, ToolMessage(call, d.tool_result)),
            ![s].tc = IF last THEN @ ELSE @ + 1,
            ![s].pc = IF last THEN "AwaitingModel" ELSE @]
    /\ UNCHANGED outsideSessions

\* session s: the loop ran max_iterations times (lines 191-195)
SessionExhausted(s) ==
    /\ sessions[s].pc = "AwaitingModel"
    /\ sessions[s].iteration >= sessions[s].max_iterations
    /\ sessions' = [sessions EXCEPT
            ![s].result = FallbackAnswer(Transcript(sessions, s)),
            ![s].pc = "Done"]
    /\ UNCHANGED outsideSessions

\* any interleaving of the steps of the sessions
SessionsNext ==
    \E s \in SessionIds :
        \/ SessionModelResponds(s)
        \/ SessionRequestFails(s)
        \/ SessionExecuteToolCall(s)
        \/ SessionExhausted(s)

----------------------------------------------------------------------------
(* ScheduledCollector: construction and run_collection_cycle
   (src/scheduled_collector.py) *)

\* no ScheduledCollector was constructed
CollectorIdle == collector = [pc |-> "idle"]

\* self.POSTS_PER_PLATFORM
POSTS_PER_PLATFORM == 5

\* collection cycles followed
MaxCollectionCycles == 2

\* self.CARRIERS.keys(), in insertion order
CarrierKeys == <<"tmobile", "verizon", "att">>

\* the platforms collect_all_platforms collects from, in its order
PlatformOrder == <<"reddit", "google_play", "app_store">>

\* carrier_config['app_store_app_id']
AppStoreAppId(carrier) ==
    CASE carrier = "tmobile" -> "1492278657"
      [] carrier = "verizon" -> "416023011"
      [] carrier = "att" -> "309172177"

\* the post_id each platform collector builds from the id of the source
SourcePostId(carrier, platform, source_id) ==
    CASE platform = "reddit" -> "reddit_" \o source_id
      [] platform = "google_play" -> "playstore_" \o source_id
      [] platform = "app_store" -> "appstore_" \o AppStoreAppId(carrier) \o "_" \o source_id

\* the source ids a platform lists for a carrier while the collector runs
Listed(carrier, platform) ==
    CASE carrier = "tmobile" /\ platform = "reddit" -> {"s1"}
      [] carrier = "tmobile" /\ platform = "google_play" -> {"r1"}
      [] carrier = "verizon" /\ platform = "reddit" -> {"s1"}
      [] carrier = "att" /\ platform = "app_store" -> {"7"}
      [] OTHER -> {}

\* what one fetch of a platform gives: the entries listed, and after how many
\* of them the collector's try block raises (-1: it does not)
FetchOutcomes(carrier, platform) ==
    {[listing |-> <<>>, raises_after |-> -1]} \cup
    {[listing |-> <<x>>, raises_after |-> j] : x \in Listed(carrier, platform), j \in {-1, 1}} \cup
    {[listing |-> <<x, x>>, raises_after |-> -1] : x \in Listed(carrier, platform)}

\* a collected post is not recorded in the cache
MarkSeenNot(cache, post_id) == cache

\* self._existing_ids[carrier].add(post_id)
MarkSeen(cache, post_id) == cache \cup {post_id}

\* the loop of a platform collector over the entries fetched: duplicates are
\* skipped, a new post is appended and marked, the loop breaks at `limit` posts
RECURSIVE CollectEntries(_, _, _, _, _, _)
CollectEntries(cache, posts, carrier, platform, entries, limit) ==
    IF entries = <<>> THEN [posts |-> posts, cache |-> cache]
    ELSE LET post_id == SourcePostId(carrier, platform, Head(entries)) IN
         IF post_id \in cache
         THEN CollectEntries(cache, posts, carrier, platform, Tail(entries), limit)
         ELSE LET collected == Append(posts, [platform |-> platform, post_id |-> post_id])
                  marked == MarkSeen(cache, post_id)
              IN IF Len(collected) >= limit
                 THEN [posts |-> collected, cache |-> marked]
                 ELSE CollectEntries(marked, collected, carrier, platform, Tail(entries), limit)

\* one platform collector: `except Exception` logs and returns [], the cache
\* keeps what the loop marked before the exception
CollectPlatform(cache, carrier, platform, outcome, limit) ==
    IF outcome.raises_after = -1
    THEN CollectEntries(cache, <<>>, carrier, platform, outcome.listing, limit)
    ELSE [posts |-> <<>>,
          cache |-> CollectEntries(cache, <<>>, carrier, platform,
                        SubSeq(outcome.listing, 1, outcome.raises_after), limit).cache]

\* collect_all_platforms: reddit, then Play Store, then App Store
CollectAllPlatforms(cache, carrier, outcomes) ==
    LET r == CollectPlatform(cache, carrier, "reddit", outcomes[1], POSTS_PER_PLATFORM)
        p == CollectPlatform(r.cache, carrier, "google_play", outcomes[2], POSTS_PER_PLATFORM)
        a == CollectPlatform(p.cache, carrier, "app_store", outcomes[3], POSTS_PER_PLATFORM)
    IN [posts |-> r.posts \o p.posts \o a.posts, cache |-> a.cache]

\* how add_posts ends: every document uploaded; the encoder raised, which
\* add_posts logs before it returns; upload_documents raised
AddPostsOutcomes == {"stored", "encoding failed", "upload raised"}

\* [p.post_id for p in posts]
PostIds(posts) == [i \in DOMAIN posts |-> posts[i].post_id]

\* an exception of one carrier ending the loop over the carriers
NextCarrierAbort(k, raised) == IF raised THEN Len(CarrierKeys) + 1 ELSE k + 1

\* the carrier `for carrier in self.CARRIERS.keys()` goes on with: the except
\* clause is inside the loop
NextCarrier(k, raised) == k + 1

\* ScheduledCollector(): the vector DBs that could be created, the index of each
\* carrier, the ids _load_existing_ids loads (none for a carrier whose search
\* raises) and the statistics
ConstructCollector ==
    /\ collector.pc = "idle"
    /\ \E dbs \in {Range(CarrierKeys), Range(CarrierKeys) \ {"att"}},
          indexed \in {{}, {"reddit_s1"}}, load_raises \in BOOLEAN :
         LET stored == [c \in Range(CarrierKeys) |-> IF c = "tmobile" THEN indexed ELSE {}]
             loaded == [c \in Range(CarrierKeys) |->
                           IF c \in dbs /\ ~load_raises THEN stored[c] ELSE {}]
         IN collector' =
              [pc |-> "ready", vector_dbs |-> dbs, stored |-> stored, loaded |-> loaded,
               existing_ids |-> loaded, total_runs |-> 0, total_posts_collected |-> 0,
               cycle_posts |-> 0, cycles |-> 0, k |-> 1, attempted |-> <<>>, failed |-> {},
               passed |-> [c \in Range(CarrierKeys) |-> <<>>]]
    /\ UNCHANGED outsideCollector

\* run_collection_cycle is entered: cycle_posts = 0
RunCollectionCycle ==
    /\ collector.pc = "ready"
    /\ collector.total_runs < MaxCollectionCycles
    /\ collector' = [collector EXCEPT !.pc = "cycle", !.k = 1, !.cycle_posts = 0,
                                      !.cycles = @ + 1, !.attempted = <<>>, !.failed = {}]
    /\ UNCHANGED outsideCollector

\* one pass of `for carrier in self.CARRIERS.keys()`: the posts are collected
\* and, when there are any and the carrier has a vector DB, given to add_posts;
\* an exception is logged
ProcessCarrier ==
    /\ collector.pc = "cycle"
    /\ collector.k <= Len(CarrierKeys)
    /\ LET carrier == CarrierKeys[collector.k] IN
       \E outcomes \in [1..3 -> UNION {FetchOutcomes(carrier, PlatformOrder[i]) : i \in 1..3}],
          added \in AddPostsOutcomes :
         /\ \A i \in 1..3 : outcomes[i] \in FetchOutcomes(carrier, PlatformOrder[i])
         /\ LET c == CollectAllPlatforms(collector.existing_ids[carrier], carrier, outcomes)
                given == c.posts # <<>> /\ carrier \in collector.vector_dbs
                raised == given /\ added = "upload raised"
            IN collector' = [collector EXCEPT
                  !.existing_ids[carrier] = c.cache,
                  !.passed[carrier] = IF given THEN @ \o PostIds(c.posts) ELSE @,
                  !.stored[carrier] = IF given /\ added = "stored"
                                      THEN @ \cup Range(PostIds(c.posts)) ELSE @,
                  !.cycle_posts = IF given /\ ~raised THEN @ + Len(c.posts) ELSE @,
                  !.attempted = Append(@, carrier),
                  !.failed = IF raised THEN @ \cup {carrier} ELSE @,
                  !.k = NextCarrier(@, raised)]
    /\ UNCHANGED outsideCollector

\* the statistics update that ends run_collection_cycle
FinishCycle ==
    /\ collector.pc = "cycle"
    /\ collector.k > Len(CarrierKeys)
    /\ collector' = [collector EXCEPT !.pc = "ready", !.total_runs = @ + 1,
                        !.total_posts_collected = @ + collector.cycle_posts]
    /\ UNCHANGED outsideCollector

CollectorNext == ConstructCollector \/ RunCollectionCycle \/ ProcessCarrier \/ FinishCycle

----------------------------------------------------------------------------
(* initialize_ai (src/ai_backend.py) *)

\* the module was imported and initialize_ai was not called
AiInitIdle == ai_init = [pc |-> "idle"]

\* initialize_ai / _safe_research_query calls followed
MaxInitCalls == 3

\* carriers = ["tmobile", "att", "verizon"]
InitCarriers == <<"tmobile", "att", "verizon">>

\* the carrier indexes that can be opened while a call runs
AvailableSets == {{}, {"tmobile"}, {"att", "verizon"}, {"tmobile", "att", "verizon"}}

\* what the environment does during one call: NemotronClient() raising, the
\* Azure credentials being set, the carrier indexes that open, the fallback
\* index opening, which orchestration constructor raises with the vector DBs,
\* the auto-initialisation raising, research_query raising
InitEnvs ==
    [nemotron_raises : BOOLEAN, credentials : BOOLEAN, available : AvailableSets,
     fallback_ok : BOOLEAN, raising : {"none", "AgenticRAG", "MultiAgentSystem"},
     auto_raises : BOOLEAN, research_raises : BOOLEAN]

\* the constructions of SocialMediaVectorDB that succeed, in the order of the loop
RECURSIVE OpenedLog(_, _)
OpenedLog(carriers, available) ==
    IF carriers = <<>> THEN <<>>
    ELSE (IF Head(carriers) \in available THEN <<"SocialMediaVectorDB">> ELSE <<>>)
         \o OpenedLog(Tail(carriers), available)

\* MultiAgentSystem(nemotron): _auto_initialize_rag raises without credentials
\* or when no carrier index opens, else it builds an AgenticRAG over the indexes
AutoInitialize(env) ==
    IF ~env.credentials \/ env.available = {} \/ env.auto_raises
    THEN [ai_system |-> <<>>, returned |-> FALSE,
          constructed |-> IF env.credentials THEN OpenedLog(InitCarriers, env.available)
                          ELSE <<>>]
    ELSE [ai_system |-> Some([agentic_rag |-> env.available]), returned |-> TRUE,
          constructed |-> OpenedLog(InitCarriers, env.available)
                              \o <<"AgenticRAG", "MultiAgentSystem">>]

\* the guard never finds the instance
AlreadyInitializedNever(system) == FALSE

\* if _ai_system is not None: return True
AlreadyInitialized(system) == system # <<>>

\* initialize_ai(): the value of _ai_system on return, the value returned and
\* the objects constructed, in order
InitializeAi(deps, system, env) ==
    IF ~deps THEN [ai_system |-> system, returned |-> FALSE, constructed |-> <<>>]
    ELSE IF AlreadyInitialized(system)
    THEN [ai_system |-> system, returned |-> TRUE, constructed |-> <<>>]
    ELSE IF env.nemotron_raises
    THEN [ai_system |-> <<>>, returned |-> FALSE, constructed |-> <<>>]
    ELSE
      LET opened == IF ~env.credentials THEN {}
                    ELSE IF env.available # {} THEN env.available
                    ELSE IF env.fallback_ok THEN {"tmobile"} ELSE {}
          dbs == IF ~env.credentials THEN <<>>
                 ELSE IF env.available # {} THEN OpenedLog(InitCarriers, env.available)
                 ELSE IF env.fallback_ok THEN <<"SocialMediaVectorDB">> ELSE <<>>
          first == <<"NemotronClient">> \o dbs
          auto == AutoInitialize(env)
      IN IF opened = {}
         THEN [auto EXCEPT !.constructed = first \o @]
         ELSE IF env.raising = "none"
         THEN [ai_system |-> Some([agentic_rag |-> opened]), returned |-> TRUE,
               constructed |-> first \o <<"AgenticRAG", "MultiAgentSystem">>]
         ELSE [auto EXCEPT !.constructed =
                  first \o (IF env.raising = "MultiAgentSystem" THEN <<"AgenticRAG">> ELSE <<>>)
                        \o @]

\* the module is imported: AI_DEPENDENCIES_AVAILABLE is decided by the imports
\* and _ai_system = None
ImportBackend ==
    /\ ai_init.pc = "idle"
    /\ \E deps \in BOOLEAN :
         ai_init' = [pc |-> "ready", deps |-> deps, ai_system |-> <<>>, calls |-> 0,
                     op |-> "import", before |-> <<>>, returned |-> <<>>,
                     constructed |-> <<>>]
    /\ UNCHANGED outsideAiInit

\* one call of initialize_ai()
InitializeAiCall ==
    /\ ai_init.pc = "ready"
    /\ ai_init.calls < MaxInitCalls
    /\ \E env \in InitEnvs :
         LET r == InitializeAi(ai_init.deps, ai_init.ai_system, env) IN
         ai_init' = [ai_init EXCEPT !.calls = @ + 1, !.op = "initialize_ai",
                        !.before = ai_init.ai_system, !.ai_system = r.ai_system,
                        !.returned = Some(r.returned), !.constructed = r.constructed]
    /\ UNCHANGED outsideAiInit

\* one call of _safe_research_query(): initialize_ai() when _ai_system is None,
\* None when it returns False, else research_query's summary or None when it
\* raises
SafeResearchQueryCall ==
    /\ ai_init.pc = "ready"
    /\ ai_init.calls < MaxInitCalls
    /\ \E env \in InitEnvs :
         LET r == IF ai_init.ai_system = <<>>
                  THEN InitializeAi(ai_init.deps, ai_init.ai_system, env)
                  ELSE [ai_system |-> ai_init.ai_system, returned |-> TRUE,
                        constructed |-> <<>>]
         IN ai_init' = [ai_init EXCEPT !.calls = @ + 1, !.op = "_safe_research_query",
                           !.before = ai_init.ai_system, !.ai_system = r.ai_system,
                           !.returned = IF r.returned /\ ~env.research_raises
                                        THEN Some("research_summary") ELSE <<>>,
                           !.constructed = r.constructed]
    /\ UNCHANGED outsideAiInit

AiInitNext == ImportBackend \/ InitializeAiCall \/ SafeResearchQueryCall

----------------------------------------------------------------------------
(* Specifications *)

\* none of the maintenance, summary, scheduling and collection calls was made
LateIdle == CollectorIdle /\ AiInitIdle

CallsIdle ==
    DedupIdle /\ SummaryIdle /\ SchedulerIdle /\ ScanIdle /\ SessionsIdle /\ LateIdle

\* no call of the retrieval components is in progress
RetrievalIdle == AgentIdle /\ RagIdle /\ QueryIdle /\ IngestIdle /\ DbIdle /\ CallsIdle

Init == SessionInit /\ PipelineIdle /\ RetrievalIdle

\* one call_with_tools session
Spec == Init /\ [][Next]_vars

\* one generate_report call
PipelineStart == SessionIdle /\ PipelineInit /\ RetrievalIdle

PipelineSpec == PipelineStart /\ [][PipelineNext]_vars

\* one call of direct_prompt, retrieve_all_platforms or get_ai_chat_response
RagStart ==
    SessionIdle /\ PipelineIdle /\ RagInit /\ QueryIdle /\ IndexLoaded /\ DbIdle /\ CallsIdle

RagSpec == RagStart /\ [][RagNext]_vars

\* one call of AgenticRAG.query
QueryStart ==
    SessionIdle /\ PipelineIdle /\ RagIdle /\ QueryInit /\ IngestIdle /\ DbIdle /\ CallsIdle

QuerySpec == QueryStart /\ [][QueryNext]_vars

\* ingestion operations on one carrier's index, empty at first
IngestStart ==
    SessionIdle /\ PipelineIdle /\ AgentIdle /\ RagIdle /\ QueryIdle /\ IngestIdle /\ DbIdle
    /\ CallsIdle

IngestSpec == IngestStart /\ [][IngestNext]_vars

\* one construction of a SocialMediaVectorDB
DbStart ==
    SessionIdle /\ PipelineIdle /\ AgentIdle /\ RagIdle /\ QueryIdle /\ IngestIdle /\ DbInit
    /\ CallsIdle

DbSpec == DbStart /\ [][DbNext]_vars

\* one remove_duplicates call on an index of any content
DedupStart ==
    SessionIdle /\ PipelineIdle /\ AgentIdle /\ RagIdle /\ QueryIdle /\ DbIdle /\ DedupInit
    /\ SummaryIdle /\ SchedulerIdle /\ ScanIdle /\ SessionsIdle /\ LateIdle

DedupSpec == DedupStart /\ [][DedupNext]_vars

\* one generate_summary_json call and the get_ai_summary_data after it
SummaryStart ==
    SessionIdle /\ PipelineIdle /\ RetrievalIdle

SummarySpec == SummaryStart /\ [][SummaryNext]_vars

\* one run_scheduled call
SchedulerStart ==
    SessionIdle /\ PipelineIdle /\ RetrievalIdle

SchedulerSpec == SchedulerStart /\ [][SchedulerNext]_vars

\* one collect_carrier_reviews call
ScanStart ==
    SessionIdle /\ PipelineIdle /\ RetrievalIdle

ScanSpec == ScanStart /\ [][ScanNext]_vars

\* two call_with_tools sessions interleaved on one client
SessionsStart ==
    SessionIdle /\ PipelineIdle /\ AgentIdle /\ RagIdle /\ QueryIdle /\ IngestIdle /\ DbIdle
    /\ DedupIdle /\ SummaryIdle /\ SchedulerIdle /\ ScanIdle /\ SessionsInit /\ LateIdle

SessionsSpec == SessionsStart /\ [][SessionsNext]_vars

\* one ScheduledCollector instance and its collection cycles
CollectorStart ==
    SessionIdle /\ PipelineIdle /\ RetrievalIdle

CollectorSpec == CollectorStart /\ [][CollectorNext]_vars

\* the ai_backend module and its calls of initialize_ai
AiInitStart ==
    SessionIdle /\ PipelineIdle /\ RetrievalIdle

AiInitSpec == AiInitStart /\ [][AiInitNext]_vars

----------------------------------------------------------------------------
(* Helpers of the properties *)

Terminated == pc \in {"Done", "Raised"}

\* positions of the assistant turns of the transcript
AssistantTurns == {i \in 1..Len(messages) : messages[i].role = "assistant"}

\* every completion request issued so far was answered with a message
AllAnswered == requests = Cardinality(AssistantTurns)

\* every answer so far requested at least one tool call
AlwaysToolCalls == \A i \in AssistantTurns : messages[i].tool_calls # <<>>

\* the tool-call loop of the assistant turn at position i has finished
TurnCompleted(i) == pc # "ExecutingTools" \/ i # Len(messages) - (tc - 1)

\* the tool turns present for the assistant turn at i: positions i+1 .. i+TurnResults(i)
RECURSIVE ToolRun(_, _)
ToolRun(i, n) ==
    IF i + n + 1 <= Len(messages) /\ messages[i + n + 1].role = "tool"
    THEN ToolRun(i, n + 1) ELSE n

\* the j-th tool call of the turn at i was given to a registered tool that raised
CallRaised(i, j) ==
    LET call == messages[i].tool_calls[j] IN
    /\ call.name \in RegisteredTools
    /\ CallTool(call.name, ParseArgs(call.arguments)).raised

----------------------------------------------------------------------------
(* C1: when every response requests a tool call, call_with_tools ends after exactly
   max_iterations completion requests and returns a string, without raising; the
   number of completion requests never exceeds max_iterations; and the session
   always ends: it is never stuck before it has ended, and every step either ends
   it, starts the next of the max_iterations iterations, or moves on in the
   current turn's list of tool calls. *)
C1_CapSafety ==
    /\ requests <= max_iterations
    /\ iteration = requests
    /\ (Terminated /\ AllAnswered /\ AlwaysToolCalls) =>
            /\ pc = "Done"
            /\ requests = max_iterations
            /\ result \notin {NONE, NoResult}
    /\ ~Terminated => ENABLED Next

C1_Progress ==
    \/ pc' \in {"Done", "Raised"}
    \/ iteration' = iteration + 1 /\ iteration' <= max_iterations
    \/ /\ iteration' = iteration
       /\ pc = "ExecutingTools"
       /\ tool_calls' = tool_calls
       /\ tc <= Len(tool_calls)
       /\ tc' = tc + 1 \/ pc' = "AwaitingModel"

\* C1: the iteration cap holds in every state and every step makes progress towards
\* the end of the session
C1_IterationCap == [](C1_CapSafety) /\ [][C1_Progress]_vars

C1_Witness ==
    /\ pc = "Done" /\ AllAnswered /\ AlwaysToolCalls
    /\ max_iterations = MaxIter /\ requests = MaxIter

(* C2: a registered tool that raises gives that call an error-string tool turn; the
   other calls of the turn are still executed (a turn's tool loop is never left
   unfinished) and the session does not end by an exception of a tool. *)
C2_ToolErrorIsolation ==
    /\ \A i \in AssistantTurns : \A j \in 1..Len(messages[i].tool_calls) :
          (i + j <= Len(messages) /\ CallRaised(i, j)) =>
              LET call == messages[i].tool_calls[j] IN
              /\ messages[i + j].role = "tool"
              /\ messages[i + j].content = "Error executing tool: "
                    \o CallTool(call.name, ParseArgs(call.arguments)).text
    /\ \A i \in AssistantTurns :
          TurnCompleted(i) => ToolRun(i, 0) = Len(messages[i].tool_calls)
    /\ pc = "Raised" => ~AllAnswered

C2_Witness ==
    \E i \in AssistantTurns :
        /\ Len(messages[i].tool_calls) = 2
        /\ CallRaised(i, 1)
        /\ messages[i].tool_calls[1].name = "broken"
        /\ ToolRun(i, 0) = 2
        /\ pc = "AwaitingModel"

(* C3: a tool call naming an unregistered tool is never dispatched and never raises:
   its tool turn carries the inline error string naming the tool, and the session
   goes on (the turn's loop is finished, the next request follows). *)
C3_UnknownToolInline ==
    /\ \A i \in AssistantTurns : \A j \in 1..Len(messages[i].tool_calls) :
          LET call == messages[i].tool_calls[j] IN
          call.name \notin RegisteredTools =>
              /\ \A k \in 1..Len(invoked) : invoked[k].id # call.id
              /\ i + j <= Len(messages) =>
                    /\ messages[i + j].role = "tool"
                    /\ messages[i + j].tool_call_id = call.id
                    /\ messages[i + j].content = "Error: Tool " \o call.name \o " not found"
              /\ (i + j > Len(messages)) => pc = "ExecutingTools"
    /\ \A k \in 1..Len(invoked) : invoked[k].name \in RegisteredTools
    /\ pc = "Raised" => ~AllAnswered

C3_Witness ==
    \E i \in AssistantTurns :
        /\ Len(messages[i].tool_calls) >= 1
        /\ messages[i].tool_calls[1].name = "ghost"
        /\ i + 1 <= Len(messages)
        /\ messages[i + 1].content = "Error: Tool ghost not found"
        /\ \E i2 \in AssistantTurns : i2 > i

(* C4: every assistant turn with n tool calls is followed by its tool turns in
   request order, the j-th tagged with the j-th call's identifier; once the turn's
   execution has completed there are exactly n of them; and every tool turn belongs
   to such a run. *)
C4_ToolTurnCorrespondence ==
    /\ \A i \in AssistantTurns :
          LET n == Len(messages[i].tool_calls) IN
          /\ ToolRun(i, 0) <= n
          /\ TurnCompleted(i) => ToolRun(i, 0) = n
          /\ \A j \in 1..ToolRun(i, 0) :
                messages[i + j].tool_call_id = messages[i].tool_calls[j].id
    /\ \A k \in 1..Len(messages) :
          messages[k].role = "tool" =>
              \E i \in AssistantTurns : i < k /\ k <= i + ToolRun(i, 0)

C4_Witness ==
    \E i \in AssistantTurns :
        /\ Len(messages[i].tool_calls) = 2
        /\ TurnCompleted(i)
        /\ messages[i + 1].content = "hits"
        /\ messages[i + 2].content = "Error: Tool ghost not found"
        /\ messages[i + 1].tool_call_id # messages[i + 2].tool_call_id

\* the tool calls of the transcript that reached a registered tool so far
DispatchedCalls ==
    {<<i, j>> \in AssistantTurns \X (1..MaxToolCalls) :
        /\ j <= Len(messages[i].tool_calls)
        /\ i + j <= Len(messages)
        /\ messages[i].tool_calls[j].name \in RegisteredTools}

(* C5: a response without tool calls ends the session at once: it is the last turn,
   its content is returned, no tool runs and no request is issued after it; a
   response with tool calls has all its calls executed before the session returns. *)
C5_DoneOnToolFreeResponse ==
    /\ \A i \in AssistantTurns :
          messages[i].tool_calls = <<>> =>
              /\ i = Len(messages)
              /\ pc = "Done"
              /\ result = messages[i].content
              /\ AllAnswered
    /\ pc = "Done" =>
          \A i \in AssistantTurns : ToolRun(i, 0) = Len(messages[i].tool_calls)
    /\ Len(invoked) = Cardinality(DispatchedCalls)

C5_Witness ==
    /\ pc = "Done"
    /\ messages[Len(messages)].role = "assistant"
    /\ messages[Len(messages)].tool_calls = <<>>
    /\ result = "B"
    /\ Len(invoked) = 1
    /\ requests = 2

\* the assistant turns that had content
TurnsWithContent == {i \in AssistantTurns : Truthy(messages[i].content)}

\* the session returned because the loop ran out, not on a tool-free response
CapReached ==
    /\ pc = "Done"
    /\ \A i \in AssistantTurns : messages[i].tool_calls # <<>>

(* C6: at the iteration cap the session returns the content of the most recent
   assistant turn that had content, and the max-iterations marker exactly when no
   assistant turn had content. *)
C6_CapFallback ==
    CapReached =>
        /\ TurnsWithContent # {} =>
              \E i \in TurnsWithContent :
                  /\ \A k \in TurnsWithContent : k <= i
                  /\ result = messages[i].content
        /\ TurnsWithContent = {} <=> result = "Maximum iterations reached"

C6_Witness ==
    /\ CapReached
    /\ Cardinality(TurnsWithContent) = 2
    /\ \E i, k \in TurnsWithContent :
          i < k /\ messages[i].content = "A" /\ messages[k].content = "B"
    /\ result = "B"

(* C7: no argument payload makes the session raise: a payload that does not parse
   has its tool invoked with empty arguments, a payload that parses to something
   other than an object gets an error-string tool turn, and in both cases the
   call's tool turn is appended. *)
C7_ArgumentPayloads ==
    /\ \A p \in DispatchedCalls :
          LET call == messages[p[1]].tool_calls[p[2]] IN
          /\ messages[p[1] + p[2]].role = "tool"
          /\ ~JsonLoads(call.arguments).ok =>
                \E k \in 1..Len(invoked) :
                    /\ invoked[k].id = call.id
                    /\ invoked[k].name = call.name
                    /\ invoked[k].args = EmptyArgs
          /\ (JsonLoads(call.arguments).ok
                /\ JsonLoads(call.arguments).value.kind # "object") =>
                messages[p[1] + p[2]].content
                    = "Error executing tool: argument after ** must be a mapping"
    /\ pc = "Raised" => ~AllAnswered

C7_Witness ==
    \E i \in AssistantTurns :
        /\ Len(messages[i].tool_calls) = 2
        /\ messages[i].tool_calls[1].name = "stats"
        /\ messages[i].tool_calls[1].arguments = "{oops"
        /\ messages[i].tool_calls[2].name = "lookup"
        /\ messages[i].tool_calls[2].arguments = "[1]"
        /\ ToolRun(i, 0) = 2
        /\ messages[i + 1].content = JsonDumps("count=3")
        /\ pc = "AwaitingModel"

----------------------------------------------------------------------------
(* Helpers of the pipeline properties *)

StageOrder == <<"research", "outline", "draft", "edit">>

\* the text occurs in the prompt exactly as given
Contains(prompt, text) == \E k \in 1..Len(prompt) : prompt[k] = text

(* C8: generate_report calls the stages in the order research, outline, draft, edit:
   the k-th call made is the k-th stage, it is made only after every earlier call
   has returned, a run that returns has made exactly the four calls, and nothing
   is called after the edit stage. *)
C8_StageOrder ==
    /\ Len(llm_calls) <= Len(StageOrder)
    /\ \A k \in 1..Len(llm_calls) :
          /\ llm_calls[k].agent = StageOrder[k]
          /\ k < Len(llm_calls) => llm_calls[k].returned # RAISED
    /\ stage \in {"research", "outline", "draft", "edit"} =>
          stage = StageOrder[Len(llm_calls) + 1]
    /\ stage \in {"return", "done"} => Len(llm_calls) = Len(StageOrder)
    /\ stage = "done" => ~ENABLED PipelineNext

C8_Witness ==
    /\ stage = "done"
    /\ Len(llm_calls) = Len(StageOrder)
    /\ \A k \in 1..Len(llm_calls) : llm_calls[k].returned # RAISED

(* C9: the bundle holds the four stage outputs as the LLM capability returned them,
   the outline prompt contains the research output, the draft prompt the research
   output and the outline, the edit prompt the research output, the outline and
   the draft. *)
C9_ContextThreading ==
    /\ \A k \in 1..Len(llm_calls) : \A h \in 1..(k - 1) :
          Contains(llm_calls[k].prompt, llm_calls[h].returned)
    /\ stage = "done" =>
          /\ bundle.research_summary = llm_calls[1].returned
          /\ bundle.outline = llm_calls[2].returned
          /\ bundle.draft = llm_calls[3].returned
          /\ bundle.final_report = llm_calls[4].returned

C9_Witness ==
    /\ stage = "done"
    /\ bundle.research_summary = "t1"
    /\ bundle.outline = "t2"
    /\ bundle.draft = "t3"
    /\ bundle.final_report = "t1"
    /\ Contains(llm_calls[4].prompt, "t3")

(* C10: when the LLM capability raises during a stage, generate_report ends with
   that exception: the raising call is the last call made, no stage is called
   twice, and no bundle is returned. *)
C10_StageFailurePropagates ==
    /\ \A k \in 1..Len(llm_calls) :
          llm_calls[k].returned = RAISED =>
              /\ k = Len(llm_calls)
              /\ stage = "raised"
              /\ bundle = NoBundle
    /\ \A h, k \in 1..Len(llm_calls) : h # k => llm_calls[h].agent # llm_calls[k].agent
    /\ stage = "raised" =>
          /\ Len(llm_calls) >= 1
          /\ llm_calls[Len(llm_calls)].returned = RAISED
          /\ ~ENABLED PipelineNext

C10_Witness ==
    /\ stage = "raised"
    /\ Len(llm_calls) = 3
    /\ llm_calls[3].agent = "draft"
    /\ llm_calls[3].returned = RAISED

----------------------------------------------------------------------------
(* Helpers of the retrieval properties *)

\* the searches and the completion requests among the events so far
SearchEvents == {i \in 1..Len(rag_events) : rag_events[i].kind = "search"}

CompletionEvents == {i \in 1..Len(rag_events) : rag_events[i].kind = "completion"}

FailedSearches == {i \in SearchEvents : rag_events[i].outcome.raised}

FailedCompletions == {i \in CompletionEvents : rag_events[i].outcome.raised}

\* the header lines of the sections of a fanned-out result
HeadersOf(sections) == {sections[i][1] : i \in 1..Len(sections)}

----------------------------------------------------------------------------
(* C11: direct_prompt never raises and always returns text, whatever retrieval calls
   and whatever completion fail: no exception leaves it, it can always take its
   next step until it has returned, the value it returns is a str, and that str is
   "Error generating response: " followed by the error detail exactly when the
   completion failed, and the completion's text otherwise. *)
C11_DirectPromptNeverRaises ==
    rag_op = "direct_prompt" =>
        /\ rag_pc # "raised"
        /\ rag_pc # "done" => ENABLED RagNext
        /\ rag_pc = "done" =>
              /\ rag_result.kind = "str"
              /\ Cardinality(CompletionEvents) = 1
              /\ \A i \in CompletionEvents :
                    LET o == rag_events[i].outcome IN
                    rag_result.text = IF o.raised
                                      THEN <<"Error generating response", ": ", o.error>>
                                      ELSE o.text

\* a call in which a retrieval failed and the completion failed too has returned
C11_Witness ==
    /\ rag_op = "direct_prompt"
    /\ rag_pc = "done"
    /\ FailedSearches # {}
    /\ FailedCompletions # {}
    /\ rag_result.kind = "str"

----------------------------------------------------------------------------
(* C12: one direct_prompt call without a platform selection searches the configured
   indexes in their order, each exactly once, then issues exactly one completion
   request, and nothing after it: the i-th event is the search of the i-th index,
   the event after the last index is the completion request, it is the last event,
   and the call has returned with it. *)
C12_EagerRetrievalThenOneCompletion ==
    (rag_op = "direct_prompt" /\ ~platforms.selected) =>
        /\ \A i \in 1..Len(rag_events) :
              IF i <= Len(vector_dbs)
              THEN rag_events[i].kind = "search" /\ rag_events[i].key = vector_dbs[i]
              ELSE /\ i = Len(vector_dbs) + 1
                   /\ rag_events[i].kind = "completion"
                   /\ rag_pc = "done"
        /\ rag_pc = "done" => Len(rag_events) = Len(vector_dbs) + 1

\* a call over three indexes has returned, one of its searches having failed
C12_Witness ==
    /\ rag_op = "direct_prompt"
    /\ ~platforms.selected
    /\ Len(vector_dbs) = 3
    /\ rag_pc = "done"
    /\ Cardinality(SearchEvents) = 3
    /\ Cardinality(FailedSearches) = 1
    /\ Cardinality(CompletionEvents) = 1

----------------------------------------------------------------------------
(* C13: when retrieval and the completion succeed, get_ai_chat_response returns the
   model's response text with the reasoning tags removed, not None: once it has
   returned with no failed search and no failed completion, its value is the
   cleaned text of a completion it requested. *)
C13_ChatResponseReturnsText ==
    (rag_op = "get_ai_chat_response" /\ rag_pc = "done"
        /\ FailedSearches = {} /\ FailedCompletions = {}) =>
        \E i \in CompletionEvents :
            rag_result = Str(Clean(rag_events[i].outcome.text))

----------------------------------------------------------------------------
(* C14: when exactly one of the searches of retrieve_all_platforms throws, the
   operation does not raise, and its output has a section header for every
   configured platform. *)
C14_FanOutResilience ==
    (rag_op = "retrieve_all_platforms" /\ Cardinality(FailedSearches) = 1) =>
        /\ rag_pc # "raised"
        /\ rag_pc = "done" =>
              \A i \in 1..Len(FanOutKeys) :
                  FanOutKeys[i] \in Range(vector_dbs) =>
                      <<"[", Header(FanOutKeys[i]), "]">> \in HeadersOf(rag_result.text)

----------------------------------------------------------------------------
(* C15: when the search of an index fails, search() returns an empty hit list and
   retrieve_context the no-results text, instead of passing the exception on. *)
C15_GatewayReturnsEmpty ==
    \A i \in FailedSearches :
        /\ ~Search(rag_events[i].outcome).raised
        /\ Search(rag_events[i].outcome).hits = <<>>
        /\ ~rag_events[i].ctx.raised
        /\ rag_events[i].ctx.text = <<NoPostsLine>>

----------------------------------------------------------------------------
(* C16: after any sequence of ingestion operations no two stored documents share
   platform and post_id, so submitting a stored document again does not increase
   the number of stored documents. *)
C16_NoDuplicateDocuments ==
    \A i, j \in 1..Len(index_docs) :
        (index_docs[i].platform = index_docs[j].platform
            /\ index_docs[i].post_id = index_docs[j].post_id) => i = j

----------------------------------------------------------------------------
(* C17: every tool the research stage's system prompt tells the model to use is
   registered in the session the research stage starts, and a call of one of them
   is dispatched to an implementation, not answered with a tool-not-found error. *)
C17_PromptedToolsRegistered ==
    (q_call.name \in ResearchPromptTools /\ q_call.tool_result # "") =>
        /\ q_call.name \in q_tools
        /\ q_call.dispatched

----------------------------------------------------------------------------
(* C18: every completion request of a session started through query carries the
   same list of exactly three tool schemas, whatever indexes were configured. *)
C18_ThreeToolSchemas ==
    /\ Cardinality(q_sent) <= 1
    /\ \A schemas \in q_sent : Len(schemas) = 3

----------------------------------------------------------------------------
(* C19, as the specification states it: constructing a SocialMediaVectorDB for a
   carrier value that is not one of tmobile, att, verizon raises before any index
   is looked up, created or queried. *)
C19_UnknownBrandFailsFast ==
    db_args.carrier \notin {"tmobile", "att", "verizon"} =>
        /\ db_events = <<>>
        /\ db_pc \in {"validate", "raised"}

(* C19, amended: constructing a SocialMediaVectorDB for a non-empty carrier value
   whose lower-cased form is not one of tmobile, att, verizon raises a ValueError
   before any index is looked up, created or queried; a missing or empty carrier
   counts as tmobile. *)
C19_UnknownBrandFailsFastAmended ==
    (db_args.carrier \notin {"", NONE}
        /\ Lower(db_args.carrier) \notin {"tmobile", "att", "verizon"}) =>
        /\ db_events = <<>>
        /\ db_pc \in {"validate", "raised"}
        /\ db_pc = "raised" =>
              db_error \in {"ValueError: AZURE_SEARCH_ENDPOINT missing",
                            "ValueError: AZURE_SEARCH_API_KEY missing",
                            "ValueError: carrier must be one of the known carriers"}

\* with endpoint and key present, an unknown carrier was refused
C19_Witness ==
    /\ db_args.carrier = "sprint"
    /\ db_args.endpoint
    /\ db_args.api_key
    /\ db_pc = "raised"
    /\ db_error = "ValueError: carrier must be one of the known carriers"
    /\ db_events = <<>>

----------------------------------------------------------------------------
(* C20: for every hit list a search returned, retrieve_context emits one entry per
   hit, numbered 1..n in the hits' order, each with its hit's platform tag and
   text, and it emits the no-results text if and only if the hit list is empty. *)
C20_NumberedEntries ==
    \A e \in SearchEvents :
        LET hits == rag_events[e].outcome.hits
            text == rag_events[e].ctx.text
        IN ~rag_events[e].outcome.raised =>
              /\ ~rag_events[e].ctx.raised
              /\ (<<"No relevant posts found.">> \in Range(text)) <=> (hits = <<>>)
              /\ hits # <<>> =>
                    /\ Len(text) = Len(hits)
                    /\ \A i \in 1..Len(hits) :
                          /\ text[i][1] = ToString(i)
                          /\ text[i][3] = Upper(PlatformOf(hits[i]))
                          /\ text[i][5] = hits[i].text

\* a search returned two different hits, and one returned none
C20_Witness ==
    /\ \E e \in SearchEvents :
          /\ Len(rag_events[e].outcome.hits) = 2
          /\ rag_events[e].outcome.hits[1] # rag_events[e].outcome.hits[2]
    /\ \E e \in SearchEvents :
          /\ ~rag_events[e].outcome.raised
          /\ rag_events[e].outcome.hits = <<>>

----------------------------------------------------------------------------
(* Helpers of the section properties *)

\* the label of a section: what stands between the brackets of its first line
LabelOf(section) == section[1][2]

\* the keys of a list that are configured indexes, in the list's order
ConfiguredOf(keys) ==
    LET Configured(k) == k \in Range(vector_dbs) IN SelectSeq(keys, Configured)

----------------------------------------------------------------------------
(* C21: the sections of a multi-source retrieval output stand in the fixed order of
   the sources, whichever of the queries succeed: the i-th section built by
   retrieve_all_platforms is that of the i-th configured platform of its fixed
   list, the i-th section built by direct_prompt is that of the i-th configured
   source of the list it iterates (the configured indexes, when none is selected),
   a failed source keeping its place, and the output returned or sent to the model
   is those sections in that order. *)
C21_SectionOrder ==
    /\ rag_op = "retrieve_all_platforms" =>
          LET order == ConfiguredOf(FanOutKeys) IN
          /\ Len(context_sections) <= Len(order)
          /\ \A i \in 1..Len(context_sections) :
                LabelOf(context_sections[i]) = Header(order[i])
          /\ rag_pc = "done" =>
                /\ Len(context_sections) = Len(order)
                /\ rag_result.text = context_sections
    /\ rag_op = "direct_prompt" =>
          LET order == ConfiguredOf(IF platforms.selected THEN platforms.keys
                                    ELSE vector_dbs)
          IN /\ Len(context_sections) <= Len(order)
             /\ \A i \in 1..Len(context_sections) :
                   LabelOf(context_sections[i]) =
                       IF rag_events[i].outcome.raised THEN order[i]
                       ELSE Header(order[i])
             /\ \A c \in CompletionEvents :
                   /\ Len(context_sections) = Len(order)
                   /\ order # <<>> => rag_events[c].prompt.context = context_sections

\* a direct_prompt call over three sources has returned, the first source having
\* failed and the second not
C21_Witness ==
    /\ rag_op = "direct_prompt"
    /\ rag_pc = "done"
    /\ Len(context_sections) = 3
    /\ rag_events[1].outcome.raised
    /\ ~rag_events[2].outcome.raised
    /\ LabelOf(context_sections[1]) = "tmobile"
    /\ LabelOf(context_sections[2]) = "Att"

----------------------------------------------------------------------------
(* C23: the retrieval calls of query, direct_prompt and generate_report leave the
   documents of the collections as they are: every step of such a call, a search
   of an index included, ends with the stored documents it started with. *)
C23_CoreOnlyReads == [][index_docs' = index_docs]_vars

\* a call that searched a non-empty index has returned
C23_Witness ==
    /\ rag_op \in {"direct_prompt", "retrieve_all_platforms"}
    /\ rag_pc = "done"
    /\ SearchEvents # {}
    /\ Len(index_docs) = 2

----------------------------------------------------------------------------
(* C25: for every multi-index configuration with at least one index, the carrier
   indexes included, retrieve_all_platforms issues one retrieval query to each
   configured index and returns a section for each of them. *)
C25_FanOutCoversConfiguredIndexes ==
    (rag_op = "retrieve_all_platforms" /\ multi_index /\ vector_dbs # <<>>
        /\ rag_pc = "done") =>
        /\ {rag_events[i].key : i \in SearchEvents} = Range(vector_dbs)
        /\ Cardinality(SearchEvents) = Len(vector_dbs)
        /\ Len(rag_result.text) = Len(vector_dbs)

----------------------------------------------------------------------------
(* C26: in direct_prompt a source whose retrieval query failed is treated as an
   empty result set: its section is the one an empty hit list gives, and the error
   detail is in no section of the context sent to the model. *)
C26_FailedSourceIsEmpty ==
    rag_op = "direct_prompt" =>
        \A i \in FailedSearches :
            i <= Len(context_sections) =>
                /\ context_sections[i] =
                       Section(Header(rag_events[i].key), <<NoPostsLine>>)
                /\ \A c \in CompletionEvents :
                      \A s \in Range(rag_events[c].prompt.context) :
                          \A line \in Range(s) :
                              rag_events[i].outcome.error \notin Range(line)


\* the stage calls made so far, as pairs of positions in llm_calls
StagePairs == (DOMAIN llm_calls) \X (DOMAIN llm_calls)

\* C22 as stated: the four stages are generated with pairwise different
\* temperatures, the draft stage's the highest and the edit stage's strictly
\* the lowest of the four
C22_PairwiseDifferentTemperatures ==
    \A p \in StagePairs :
        LET a == llm_calls[p[1]]
            b == llm_calls[p[2]]
        IN a.agent # b.agent =>
            /\ a.temperature # b.temperature
            /\ a.agent = "draft" => a.temperature > b.temperature
            /\ a.agent = "edit" => a.temperature < b.temperature

\* C22 amended: the draft stage's temperature is strictly the highest, the
\* research and outline stages' are below it, the edit stage's is the lowest but
\* not strictly: it equals the research stage's, and only the outline and draft
\* stages differ from every other stage
C22_TemperatureOrder ==
    \A p \in StagePairs :
        LET a == llm_calls[p[1]]
            b == llm_calls[p[2]]
        IN a.agent # b.agent =>
            /\ a.agent = "draft" => a.temperature > b.temperature
            /\ a.agent = "edit" => a.temperature <= b.temperature
            /\ a.agent \in {"outline", "draft"} => a.temperature # b.temperature
            /\ (a.agent = "edit" /\ b.agent = "research") => a.temperature = b.temperature

\* all four stages have been generated
C22_Witness ==
    /\ Len(llm_calls) = 4
    /\ {llm_calls[i].agent : i \in DOMAIN llm_calls} = {"research", "outline", "draft", "edit"}


\* C30: remove_duplicates with dry_run=True deletes no document and reports
\* removed = 0, and the summary of every returned call satisfies
\* total = unique + duplicates
C30_DryRunDeletesNothing ==
    /\ (dedup.pc \in {"scan", "scanned", "returned"} /\ dedup.dry_run) =>
          /\ index_docs = dedup.before
          /\ dedup.delete_calls = <<>>
    /\ dedup.pc = "returned" =>
          /\ dedup.summary.total = dedup.summary.unique + dedup.summary.duplicates
          /\ dedup.dry_run => dedup.summary.removed = 0

\* a dry run returned after it found duplicates
C30_Witness ==
    /\ dedup.pc = "returned"
    /\ dedup.dry_run
    /\ dedup.summary.duplicates > 0
    /\ dedup.summary.unique > 0


\* C27: whenever generate_summary_json writes the summary file it returns the
\* data it wrote, and it returns None only when the call wrote no file, on the
\* research-available path and on the CHI-scores-only path alike
C27_ReturnsWhatItWrote ==
    summary_call.pc \in {"returned", "served"} =>
        /\ summary_call.file # <<>> => summary_call.result = summary_call.file
        /\ summary_call.result = <<>> => summary_call.file = <<>>


\* C28: run_scheduled called with an integer max_cycles runs at most max_cycles
\* collection cycles and then stops without waiting for another interval,
\* whatever the integer
C28_AtMostMaxCycles ==
    (scheduler.pc # "idle" /\ scheduler.max_cycles # <<>>) =>
        /\ scheduler.total_runs <= scheduler.max_cycles[1]
        /\ scheduler.pc = "sleep" => scheduler.total_runs < scheduler.max_cycles[1]


\* the judgements of the app being scanned
JudgedOfApp ==
    LET OfApp(j) == j.app = scan.app IN SelectSeq(scan.judged, OfApp)

\* the length of the run of duplicates that ends a list of judgements
RECURSIVE TrailingDuplicates(_)
TrailingDuplicates(judged) ==
    IF judged = <<>> \/ ~judged[Len(judged)].duplicate THEN 0
    ELSE 1 + TrailingDuplicates(SubSeq(judged, 1, Len(judged) - 1))

\* the post_ids of the reviews judged not to be duplicates, in order
JudgedNew ==
    LET New(j) == ~j.duplicate
        kept == SelectSeq(scan.judged, New)
    IN [i \in DOMAIN kept |-> kept[i].post_id]

\* the post_ids of a list of formatted reviews
PostIdsOf(reviews) == [i \in DOMAIN reviews |-> reviews[i].post_id]

\* C29: the scan of one app stops as soon as stop_after_duplicates consecutive
\* duplicates have been seen, a non-duplicate review resets the consecutive
\* count to zero, and no review judged a duplicate is in the returned list
C29_EarlyStopAndNoDuplicates ==
    /\ scan.pc = "scan" =>
          /\ scan.consecutive_duplicates = TrailingDuplicates(JudgedOfApp)
          /\ scan.stopped <=> scan.consecutive_duplicates >= scan.stop_after_duplicates
          /\ scan.consecutive_duplicates <= scan.stop_after_duplicates
          /\ PostIdsOf(scan.all_reviews \o scan.new_reviews) = JudgedNew
    /\ scan.pc = "returned" =>
          /\ PostIdsOf(scan.all_reviews) = JudgedNew
          /\ \A j \in DOMAIN scan.judged :
                scan.judged[j].duplicate =>
                   \A i \in DOMAIN scan.all_reviews :
                      scan.all_reviews[i].post_id = scan.judged[j].post_id =>
                         \E k \in 1..(j - 1) :
                            /\ scan.judged[k].post_id = scan.judged[j].post_id
                            /\ ~scan.judged[k].duplicate

\* a call returned new reviews after a scan in which a duplicate was followed by a
\* review that is none
C29_Witness ==
    /\ scan.pc = "returned"
    /\ scan.all_reviews # <<>>
    /\ \E j \in DOMAIN scan.judged : scan.judged[j].duplicate
    /\ \E j \in 1..(Len(scan.judged) - 1) :
          /\ scan.judged[j].duplicate
          /\ ~scan.judged[j + 1].duplicate
          /\ scan.judged[j].app = scan.judged[j + 1].app


\* the transcript after the tool calls of one assistant turn were executed
RECURSIVE WithToolResults(_, _)
WithToolResults(msgs, calls) ==
    IF calls = <<>> THEN msgs
    ELSE WithToolResults(
            Append(msgs, ToolMessage(Head(calls),
                DispatchCall(Head(calls).name, ParseArgs(Head(calls).arguments)).tool_result)),
            Tail(calls))

\* a session run alone from the transcript msgs with `left` iterations to go,
\* against the answers `received`: how it ends, its transcript and its result
RECURSIVE RunAlone(_, _, _)
RunAlone(msgs, left, received) ==
    IF left = 0
    THEN [pc |-> "Done", messages |-> msgs, result |-> FallbackAnswer(msgs)]
    ELSE IF received = <<>>
    THEN [pc |-> "AwaitingModel", messages |-> msgs, result |-> NoResult]
    ELSE IF Head(received) = RequestFailure
    THEN [pc |-> "Raised", messages |-> msgs, result |-> NoResult]
    ELSE IF NoToolCalls(Head(received))
    THEN [pc |-> "Done", messages |-> Append(msgs, Head(received)),
          result |-> Head(received).content]
    ELSE RunAlone(WithToolResults(Append(msgs, Head(received)), Head(received).tool_calls),
                  left - 1, Tail(received))

\* session s has returned or raised
SessionEnded(s) == sessions[s].pc \in {"Done", "Raised"}

\* C24: under any interleaving of two call_with_tools sessions on one client,
\* the transcript of each session holds only that session's own turns, and each
\* session ends as it would when run alone against the same model responses
C24_SessionsIsolated ==
    \A s \in DOMAIN sessions :
        /\ sessions[s].messages = InitialMessagesOf(s) \o sessions[s].own
        /\ SessionEnded(s) =>
              LET alone == RunAlone(InitialMessagesOf(s), sessions[s].max_iterations,
                                    sessions[s].received)
              IN /\ alone.pc = sessions[s].pc
                 /\ alone.messages = sessions[s].messages
                 /\ alone.result = sessions[s].result

\* session 1 has returned after a tool call while session 2, which has executed
\* a tool call of its own, is in the middle of its second iteration
C24_Witness ==
    /\ DOMAIN sessions = SessionIds
    /\ sessions[1].pc = "Done"
    /\ Len(sessions[1].own) >= 3
    /\ sessions[2].pc = "ExecutingTools"
    /\ sessions[2].iteration = 2
    /\ Len(sessions[2].own) >= 3


\* the documents of the index before the call that the scan reached
ScannedDocs == SubSeq(dedup.before, 1, dedup.total)

\* the scanned documents whose key an earlier-scanned document has
SeenEarlier ==
    {i \in 1..dedup.total :
        \E j \in 1..(i - 1) : KeyOf(dedup.by, dedup.before[j]) = KeyOf(dedup.by, dedup.before[i])}

\* the call deleted and every delete succeeded
AllDeletesSucceeded ==
    /\ dedup.pc = "returned"
    /\ ~dedup.dry_run
    /\ dedup.delete_calls # <<>>
    /\ dedup.summary.removed = Len(dedup.to_delete_keys)

\* C31: after remove_duplicates with dry_run=False in which every delete
\* succeeds, the deleted documents are exactly the scanned ones whose key was
\* seen earlier in the scan, so of the scanned documents exactly the first of
\* each key remains (with those the scan did not reach), and removed = duplicates
C31_FirstOfEachKeyRemains ==
    AllDeletesSucceeded =>
        /\ index_docs = LET Kept(d) == \A i \in SeenEarlier : dedup.before[i].id # d.id
                        IN SelectSeq(dedup.before, Kept)
        /\ Range(dedup.to_delete_keys) = {dedup.before[i].id : i \in SeenEarlier}
        /\ \A i \in 1..dedup.total :
              i \notin SeenEarlier => \E k \in DOMAIN index_docs : index_docs[k] = dedup.before[i]
        /\ dedup.summary.removed = dedup.summary.duplicates

\* a call that scanned the whole index and deleted a duplicate, leaving documents
C31_Witness ==
    /\ AllDeletesSucceeded
    /\ dedup.total = Len(dedup.before)
    /\ dedup.summary.duplicates > 0
    /\ Len(index_docs) >= 2

\* C35: remove_duplicates(by='post_id') never selects for deletion a document
\* whose post_id is missing or empty
C35_EmptyPostIdNeverSelected ==
    (dedup.pc \in {"scan", "scanned", "returned"} /\ dedup.by = "post_id") =>
        \A i \in DOMAIN dedup.before :
            dedup.before[i].id \in Range(dedup.to_delete_keys) => dedup.before[i].post_id # ""


\* C32: in run_collection_cycle a failure while collecting or storing for one
\* carrier does not keep the remaining carriers from being processed in the same
\* cycle, and total_runs grows by exactly one per cycle whatever failed
C32_CycleSurvivesCarrierFailure ==
    /\ collector.pc = "cycle" =>
          /\ collector.attempted = SubSeq(CarrierKeys, 1, collector.k - 1)
          /\ collector.total_runs = collector.cycles - 1
    /\ collector.pc = "ready" =>
          /\ collector.total_runs = collector.cycles
          /\ collector.cycles > 0 => collector.attempted = CarrierKeys

\* a cycle ended in which storing for the first carrier raised
C32_Witness ==
    /\ collector.pc = "ready"
    /\ collector.total_runs = 2
    /\ "tmobile" \in collector.failed
    /\ collector.attempted = CarrierKeys

\* C33: across the collection cycles of one ScheduledCollector no post id is
\* passed to add_posts more than once for the same carrier, and no post id
\* loaded from the index at start-up is passed to add_posts
C33_PassedAtMostOnce ==
    collector.pc # "idle" =>
        \A c \in Range(CarrierKeys) :
            /\ Cardinality(Range(collector.passed[c])) = Len(collector.passed[c])
            /\ Range(collector.passed[c]) \cap collector.loaded[c] = {}

\* two cycles ran: the first carrier had an id loaded at start-up and another
\* id passed to add_posts, both listed again in the second cycle
C33_Witness ==
    /\ collector.pc = "ready"
    /\ collector.total_runs = 2
    /\ collector.loaded["tmobile"] # {}
    /\ collector.passed["tmobile"] # <<>>
    /\ collector.passed["verizon"] # <<>>

\* C34: every post id in a carrier's duplicate cache belongs to a post stored
\* in that carrier's index, so that a post whose storage failed or was skipped
\* is collected again
C34_CacheHoldsOnlyStored ==
    collector.pc # "idle" =>
        \A c \in Range(CarrierKeys) : collector.existing_ids[c] \subseteq collector.stored[c]


\* C38: after any sequence of initialize_ai calls, succeeding or failing at any
\* step, initialize_ai returns True exactly when the global AI system is set on
\* return, and once it is set a further call returns True, constructs no client,
\* index handle or orchestration object and leaves the instance as it was
C38_InitializeAiReturnsWhetherSet ==
    (ai_init.pc = "ready" /\ ai_init.op = "initialize_ai") =>
        /\ ai_init.returned = Some(ai_init.ai_system # <<>>)
        /\ ai_init.before # <<>> =>
              /\ ai_init.returned = Some(TRUE)
              /\ ai_init.constructed = <<>>
              /\ ai_init.ai_system = ai_init.before

\* the third call is an initialize_ai that found the instance set by an earlier
\* call and returned True
C38_Witness ==
    /\ ai_init.pc = "ready"
    /\ ai_init.op = "initialize_ai"
    /\ ai_init.calls = 3
    /\ ai_init.before # <<>>
    /\ ai_init.returned = Some(TRUE)


\* `a` is an initial part of `b`
IsPrefix(a, b) == Len(a) <= Len(b) /\ SubSeq(b, 1, Len(a)) = a

\* C36: throughout a call_with_tools session the transcript is append-only: its
\* first two turns always are the system prompt and the user prompt, no step
\* removes, reorders or modifies a turn, and the messages sent with each
\* completion request are the whole transcript accumulated so far
C36_TranscriptAppendOnly ==
    [][/\ IsPrefix(messages, messages')
       /\ SubSeq(messages', 1, 2) = InitialMessages
       /\ requests' = requests + 1 =>
             /\ Len(payloads') = requests'
             /\ payloads'[requests'].messages = messages]_vars

\* a second request was sent after a turn of tool calls: its messages are the
\* two prompts, the assistant turn and the tool results
C36_Witness ==
    /\ Len(payloads) = 2
    /\ Len(payloads[2].messages) > 3
    /\ Len(messages) > Len(payloads[2].messages)


\* C37: for every configuration of AgenticRAG (a single index, or any set of
\* index keys) the tool names advertised in the schemas sent to the model by
\* query() are exactly the tool names registered for dispatch in that session
C37_AdvertisedEqualsRegistered ==
    \A schemas \in q_sent : Range(schemas) = q_tools

\* a multi-index session configured without the reddit index sent its schemas
\* and dispatched a tool call
C37_Witness ==
    /\ multi_index
    /\ "playstore" \in Range(vector_dbs)
    /\ "reddit" \notin Range(vector_dbs)
    /\ q_sent # {}
    /\ q_call.dispatched

====
